---------------------------- MODULE Spec2Model ----------------------------
(***************************************************************************)
(* A model of collight/dns-sd: the Registry (probe / announce / goodbye),  *)
(* the Responder record table (MDNSServer) and the Browser.                *)
(*                                                                         *)
(* JavaScript runs one handler at a time, so every action below is one     *)
(* handler run to completion together with the microtasks it queues (the   *)
(* continuation of an await whose promise the handler resolved).           *)
(*                                                                         *)
(* Strings are sequences of one-character strings, so that split, join,    *)
(* substring and the ASCII lower-casing of nameEquals are computed, not    *)
(* assumed.                                                                *)
(***************************************************************************)
EXTENDS Integers, Sequences, FiniteSets, TLC

(***************************************************************************)
(* Strings                                                                 *)
(***************************************************************************)
UpperChars == <<"A", "B", "C", "D", "E", "F", "G", "H", "I", "J", "K", "L", "M",
                "N", "O", "P", "Q", "R", "S", "T", "U", "V", "W", "X", "Y", "Z">>
LowerChars == <<"a", "b", "c", "d", "e", "f", "g", "h", "i", "j", "k", "l", "m",
                "n", "o", "p", "q", "r", "s", "t", "u", "v", "w", "x", "y", "z">>
DigitChars == <<"0", "1", "2", "3", "4", "5", "6", "7", "8", "9">>

\* s => s.toLowerCase() applied to one character matched by /[A-Z]/g
LowerChar(c) ==
  IF \E i \in 1..26 : UpperChars[i] = c
    THEN LowerChars[CHOOSE i \in 1..26 : UpperChars[i] = c]
    ELSE c

\* a.replace(capitalLetterRegex, s => s.toLowerCase())
ToLowerAscii(s) == [i \in 1..Len(s) |-> LowerChar(s[i])]

nameEquals(a, b) == ToLowerAscii(a) = ToLowerAscii(b)

\* String(n) for a small non-negative integer
NumToStr(n) ==
  IF n < 10 THEN <<DigitChars[n + 1]>>
  ELSE <<DigitChars[(n \div 10) + 1], DigitChars[(n % 10) + 1]>>

RECURSIVE Join(_, _)
Join(parts, sep) ==
  IF parts = <<>> THEN <<>>
  ELSE IF Len(parts) = 1 THEN parts[1]
  ELSE parts[1] \o sep \o Join(Tail(parts), sep)

\* s.split(c) for a one-character separator c
RECURSIVE SplitFrom(_, _, _, _)
SplitFrom(s, c, i, cur) ==
  IF i > Len(s) THEN <<cur>>
  ELSE IF s[i] = c THEN <<cur>> \o SplitFrom(s, c, i + 1, <<>>)
  ELSE SplitFrom(s, c, i + 1, Append(cur, s[i]))

Split(s, c) == SplitFrom(s, c, 1, <<>>)

StartsWith(s, p) == Len(p) <= Len(s) /\ SubSeq(s, 1, Len(p)) = p

Includes(s, sub) ==
  \E i \in 1..(Len(s) + 1) :
    i + Len(sub) - 1 <= Len(s) /\ SubSeq(s, i, i + Len(sub) - 1) = sub

\* s.substring(n)
SubstringFrom(s, n) == SubSeq(s, n + 1, Len(s))

\* s.slice(1) when s starts with "_"
StripUnderscore(s) == IF StartsWith(s, <<"_">>) THEN Tail(s) ELSE s

\* s.trim(), for the only white space the model's alphabet has
RECURSIVE TrimLeft(_)
TrimLeft(s) == IF s # <<>> /\ Head(s) = " " THEN TrimLeft(Tail(s)) ELSE s

RECURSIVE TrimRight(_)
TrimRight(s) ==
  IF s # <<>> /\ s[Len(s)] = " " THEN TrimRight(SubSeq(s, 1, Len(s) - 1)) ELSE s

Trim(s) == TrimRight(TrimLeft(s))

RECURSIVE Flatten(_)
Flatten(ss) == IF ss = <<>> THEN <<>> ELSE Head(ss) \o Flatten(Tail(ss))

Range(s) == {s[i] : i \in 1..Len(s)}

\* array.indexOf(x), 1-based; 0 when absent
IndexOf(s, x) ==
  IF \E i \in 1..Len(s) : s[i] = x
    THEN CHOOSE i \in 1..Len(s) : s[i] = x /\ \A j \in 1..(i - 1) : s[j] # x
    ELSE 0

RemoveAt(s, i) == SubSeq(s, 1, i - 1) \o SubSeq(s, i + 1, Len(s))

(***************************************************************************)
(* ServiceType                                                             *)
(***************************************************************************)
NoStr == <<"?">>   \* undefined

\* ServiceType.toString(), subtype = NoStr when undefined
ServiceTypeToString(name, protocol, subtype) ==
  Join((IF subtype # NoStr THEN <<<<"_">> \o subtype, <<"_", "s", "u", "b">>>> ELSE <<>>)
         \o <<<<"_">> \o name>> \o <<<<"_">> \o protocol>>, <<".">>)

(***************************************************************************)
(* Service: construction and getRecords                                    *)
(***************************************************************************)
TLD == <<".", "l", "o", "c", "a", "l">>

DefaultTTL == 28800

\* os.networkInterfaces(): one loopback, one IPv4 and one IPv6 address
NetworkInterfaces ==
  << [address |-> <<"l">>, family |-> "IPv4", mac |-> "00:00:00:00:00:00", internal |-> TRUE],
     [address |-> <<"4">>, family |-> "IPv4", mac |-> "aa", internal |-> FALSE],
     [address |-> <<"6">>, family |-> "IPv6", mac |-> "aa", internal |-> FALSE] >>

\* os.hostname()
HostName == <<"h">>

\* options.name.split('.').join('-')
SanitizeName(n) == Join(Split(n, "."), <<"-">>)

\* `${this.name}.${this.type}${Service.TLD}`
MakeFqdn(name, type) == name \o <<".">> \o type \o TLD

\* encodeTXT: one "key=value" string per entry, in insertion order
encodeTXT(txt) == [i \in 1..Len(txt) |-> txt[i].key \o <<"=">> \o txt[i].value]

getRecordPTR(c, s) ==
  [type |-> "PTR", name |-> c.type \o TLD, ttl |-> c.ttl, data |-> s.fqdn]

getRecordSRV(c, s) ==
  [type |-> "SRV", name |-> s.fqdn, ttl |-> c.ttl,
   data |-> [port |-> c.port, target |-> c.host]]

getRecordTXT(c, s) ==
  [type |-> "TXT", name |-> s.fqdn, ttl |-> c.ttl, data |-> encodeTXT(c.txt)]

getRecordPTRServiceTypeEnumeration(c, s) ==
  [type |-> "PTR",
   name |-> <<"_", "s", "e", "r", "v", "i", "c", "e", "s", ".", "_", "d", "n", "s", "-",
              "s", "d", ".", "_", "u", "d", "p">> \o TLD,
   ttl |-> c.ttl, data |-> c.type \o TLD]

\* The subtype PTR as it would be if it kept the name of the constructor
getRecordPTRSubtypeFirstName(c, s, subtype) ==
  [type |-> "PTR",
   name |-> <<"_">> \o subtype \o <<".", "_", "s", "u", "b", ".">> \o c.type \o TLD,
   ttl |-> c.ttl, data |-> c.name0 \o <<".">> \o c.type \o TLD]

getRecordPTRSubtype(c, s, subtype) ==
  [type |-> "PTR",
   name |-> <<"_">> \o subtype \o <<".", "_", "s", "u", "b", ".">> \o c.type \o TLD,
   ttl |-> c.ttl, data |-> s.name \o <<".">> \o c.type \o TLD]

getRecordA(c, ip) == [type |-> "A", name |-> c.host, ttl |-> c.ttl, data |-> ip]

getRecordAAAA(c, ip) == [type |-> "AAAA", name |-> c.host, ttl |-> c.ttl, data |-> ip]

RECURSIVE AddressRecords(_, _)
AddressRecords(c, ifaces) ==
  IF ifaces = <<>> THEN <<>>
  ELSE LET addr == Head(ifaces)
           rest == AddressRecords(c, Tail(ifaces))
       IN IF addr.internal \/ addr.mac = "00:00:00:00:00:00" THEN rest
          ELSE IF addr.family = "IPv4" THEN <<getRecordA(c, addr.address)>> \o rest
          ELSE IF c.disableIPv6 THEN rest
          ELSE <<getRecordAAAA(c, addr.address)>> \o rest

\* Service.getRecords() of a service with configuration c and state s
getRecords(c, s) ==
  << getRecordPTR(c, s), getRecordSRV(c, s), getRecordTXT(c, s),
     getRecordPTRServiceTypeEnumeration(c, s) >>
    \o [i \in 1..Len(c.subtypes) |-> getRecordPTRSubtype(c, s, c.subtypes[i])]
    \o AddressRecords(c, NetworkInterfaces)

(***************************************************************************)
(* MDNSServer: the Responder's record table.  typeToRecords is a JS Map:   *)
(* a sequence of [type, recs] entries in insertion order.                  *)
(***************************************************************************)
TableHas(tbl, type) == \E i \in 1..Len(tbl) : tbl[i].type = type

TableGet(tbl, type) ==
  IF TableHas(tbl, type)
    THEN tbl[CHOOSE i \in 1..Len(tbl) : tbl[i].type = type].recs
    ELSE <<>>

\* Map.set: an existing key keeps its place, a new key goes last
TableSet(tbl, type, recs) ==
  IF TableHas(tbl, type)
    THEN [i \in 1..Len(tbl) |-> IF tbl[i].type = type THEN [type |-> type, recs |-> recs] ELSE tbl[i]]
    ELSE Append(tbl, [type |-> type, recs |-> recs])

TableDelete(tbl, type) == SelectSeq(tbl, LAMBDA e : e.type # type)

\* The test as it would be if it never found a duplicate
isDuplicateNever(a, b) == FALSE

isDuplicate(a, b) == a.type = b.type /\ a.name = b.name /\ a.data = b.data

RegisterOne(tbl, record) ==
  LET recs == TableGet(tbl, record.type)
  IN TableSet(tbl, record.type,
              IF \A i \in 1..Len(recs) : ~isDuplicate(recs[i], record)
                THEN Append(recs, record) ELSE recs)

RECURSIVE register(_, _)
register(tbl, records) ==
  IF records = <<>> THEN tbl
  ELSE register(RegisterOne(tbl, Head(records)), Tail(records))

UnregisterOne(tbl, record) ==
  LET filtered == SelectSeq(TableGet(tbl, record.type), LAMBDA r : r.name # record.name)
  IN IF Len(filtered) > 0 THEN TableSet(tbl, record.type, filtered)
     ELSE TableDelete(tbl, record.type)

RECURSIVE unregister(_, _)
unregister(tbl, records) ==
  IF records = <<>> THEN tbl
  ELSE unregister(UnregisterOne(tbl, Head(records)), Tail(records))

\* The lookup as it would be if it always compared the full name
getRecordsOfFullName(tbl, type, name) ==
  SelectSeq(TableGet(tbl, type), LAMBDA record : nameEquals(record.name, name))

getRecordsOf(tbl, type, name) ==
  SelectSeq(TableGet(tbl, type),
            LAMBDA record :
              nameEquals(IF Includes(name, <<".">>) THEN record.name
                         ELSE Split(record.name, ".")[1], name))

AllRecords(tbl) == Flatten([i \in 1..Len(tbl) |-> tbl[i].recs])


\* MDNSServer.respond, for one question: the packet sent, or no packet
AnswersOf(tbl, qtype, qname) ==
  IF qtype = "ANY"
    THEN Flatten([i \in 1..Len(tbl) |-> getRecordsOf(tbl, tbl[i].type, qname)])
    ELSE getRecordsOf(tbl, qtype, qname)

\* The targets as they would be if they were collected in an array
RECURSIVE SrvTargetsArray(_, _)
SrvTargetsArray(recs, seen) ==
  IF recs = <<>> THEN seen
  ELSE LET r == Head(recs)
       IN IF r.type = "SRV" THEN SrvTargetsArray(Tail(recs), Append(seen, r.data.target))
          ELSE SrvTargetsArray(Tail(recs), seen)

\* new Set of the SRV targets among the additionals, in first-seen order
RECURSIVE SrvTargets(_, _)
SrvTargets(recs, seen) ==
  IF recs = <<>> THEN seen
  ELSE LET r == Head(recs)
       IN IF r.type = "SRV" /\ \A i \in 1..Len(seen) : seen[i] # r.data.target
            THEN SrvTargets(Tail(recs), Append(seen, r.data.target))
            ELSE SrvTargets(Tail(recs), seen)

AdditionalsOf(tbl, qtype, answers) ==
  IF qtype = "ANY" THEN <<>>
  ELSE LET ptrs == SelectSeq(answers, LAMBDA a : a.type = "PTR")
           first == Flatten([i \in 1..Len(ptrs) |->
                      getRecordsOf(tbl, "SRV", ptrs[i].data)
                        \o getRecordsOf(tbl, "TXT", ptrs[i].data)])
           targets == SrvTargets(first, <<>>)
       IN first \o Flatten([i \in 1..Len(targets) |->
                    getRecordsOf(tbl, "A", targets[i])
                      \o getRecordsOf(tbl, "AAAA", targets[i])])

(***************************************************************************)
(* Bounds and the services of the model                                    *)
(***************************************************************************)
NumSvc == 2
MaxOps == 3       \* API calls (start, stop, unpublishAll, destroy) in a run
MaxErrors == 1    \* sends whose callback reports a transport error
MaxPeer == 1      \* responses of another host on the link
EventCap == 2     \* the event counters stop counting here
MaxAnnounce == 2  \* announcements of one chain that a run of Spec follows
ChainOps == 2     \* API calls in a run of SpecChain
ChainAnnounce == 9  \* announcements of one chain that a run of SpecChain follows
PeerOps == 2      \* API calls in a run of SpecPeer
AutoOps == 2      \* API calls in a run of SpecAuto
AutoErrors == 1   \* sends that fail in a run of SpecAuto
RestartOps == 3   \* API calls in a run of SpecRestart
RestartPeer == 1  \* responses of another host in a run of SpecRestart
RelistenOps == 3       \* start(), stop() and update() calls in a run of SpecRelisten
RelistenResponses == 1 \* responses a run of SpecRelisten delivers
RelistenLateMs == 1    \* milliseconds by which a run of SpecRelisten lets the clock pass a moment
ResponderOps == 3   \* calls and inbound queries in a run of SpecResponder
ResponderErrors == 1  \* sends that fail in a run of SpecResponder

Svc == 1..NumSvc

MAX_PROBE_AUTO_RESOLVE_ATTEMPTS == 10
REANNOUNCE_MAX_MS == 60 * 60 * 1000
REANNOUNCE_FACTOR == 3
InitialDelay == 1000
ProbeRetries == 3

\* new Service(options), for options with a valid port
NewService(o) ==
  [protocol |-> o.protocol,
   type |-> ServiceTypeToString(o.type, o.protocol, NoStr),
   subtypes |-> o.subtypes,
   name0 |-> SanitizeName(o.name),
   host |-> HostName, port |-> o.port, txt |-> o.txt, ttl |-> DefaultTTL,
   probe |-> o.probe, probeAutoResolve |-> o.probeAutoResolve,
   disableIPv6 |-> FALSE]

NoProbe == [probe |-> FALSE, probeAutoResolve |-> TRUE]
ProbeOnce == [probe |-> TRUE, probeAutoResolve |-> FALSE]
ProbeAuto == [probe |-> TRUE, probeAutoResolve |-> TRUE]

\* The options the services of a run are made with: the first service, then
\* the others
ModeChoices ==
  { [s \in Svc |-> IF s = 1 THEN m[1] ELSE m[2]] :
      m \in { <<NoProbe, NoProbe>>, <<NoProbe, ProbeOnce>>, <<NoProbe, ProbeAuto>>,
               <<ProbeAuto, ProbeAuto>> } }

\* Both services ask for the same instance name, type and protocol
OptionsOf(s, m) ==
  [protocol |-> <<"t", "c", "p">>, type |-> <<"t">>, subtypes |-> <<>>,
   name |-> <<"a">>, port |-> 3000 + s, txt |-> <<>>,
   probe |-> m.probe, probeAutoResolve |-> m.probeAutoResolve]

(***************************************************************************)
(* ServiceType.fromString and decodeTXT                                    *)
(***************************************************************************)
\* parts[i] of a JS array, 0-based; NoStr when out of range
PartAt(parts, i) == IF i >= 0 /\ i < Len(parts) THEN parts[i + 1] ELSE NoStr

\* ServiceType.fromString(input); ok = FALSE where it throws
ServiceTypeFromString(input) ==
  IF input = <<>> THEN [ok |-> FALSE, name |-> NoStr, protocol |-> NoStr, subtype |-> NoStr]
  ELSE LET split == Split(input, ".")
           parts == [i \in 1..Len(split) |-> StripUnderscore(Trim(split[i]))]
           subIndex == IndexOf(parts, <<"s", "u", "b">>) - 1
           name == IF subIndex # -1 THEN PartAt(parts, subIndex + 1) ELSE PartAt(parts, 0)
           protocol == IF subIndex # -1 THEN PartAt(parts, subIndex + 2) ELSE PartAt(parts, 1)
           subtype == IF subIndex # -1 THEN PartAt(parts, subIndex - 1) ELSE NoStr
       IN [ok |-> subIndex # 0 /\ name # NoStr /\ protocol # NoStr,
           name |-> name, protocol |-> protocol, subtype |-> subtype]

\* result[key] = value on a JS object kept as its own entries in insertion order
ObjSet(obj, key, value) ==
  IF \E i \in 1..Len(obj) : obj[i].key = key
    THEN [i \in 1..Len(obj) |-> IF obj[i].key = key THEN [key |-> key, value |-> value]
                                ELSE obj[i]]
    ELSE Append(obj, [key |-> key, value |-> value])

\* decode, the closure of decodeTXT, for one "key=value" string
DecodeEntry(item) ==
  LET eqIndex == IndexOf(item, "=")
  IN IF eqIndex = 0 THEN [key |-> item, value |-> <<>>]
     ELSE [key |-> SubSeq(item, 1, eqIndex - 1), value |-> SubSeq(item, eqIndex + 1, Len(item))]

RECURSIVE DecodeInto(_, _)
DecodeInto(result, buffers) ==
  IF buffers = <<>> THEN result
  ELSE LET e == DecodeEntry(Head(buffers))
       IN DecodeInto(ObjSet(result, e.key, e.value), Tail(buffers))

\* decodeTXT(data, false)
decodeTXT(data) == DecodeInto(<<>>, data)

(***************************************************************************)
(* JavaScript values the filter meets                                      *)
(***************************************************************************)
Undefined == [kind |-> "undefined"]

\* The members every object literal inherits from Object.prototype that the
\* model's filters name
ObjectPrototypeKeys == { <<"c", "o", "n", "s", "t", "r", "u", "c", "t", "o", "r">> }

\* String(Object), what RegExp.prototype.test makes of ({}).constructor
FunctionSource ==
  <<"f", "u", "n", "c", "t", "i", "o", "n", " ", "O", "b", "j", "e", "c", "t", "(", ")",
    " ", "{", " ", "[", "n", "a", "t", "i", "v", "e", " ", "c", "o", "d", "e", "]", " ", "}">>

\* obj[key]: the own entry, else the inherited member, else undefined
ObjGet(obj, key) ==
  IF \E i \in 1..Len(obj) : obj[i].key = key
    THEN [kind |-> "string", s |-> obj[CHOOSE i \in 1..Len(obj) : obj[i].key = key].value]
  ELSE IF key \in ObjectPrototypeKeys THEN [kind |-> "function", s |-> FunctionSource]
  ELSE Undefined

\* regex.test(v) for a RegExp of literal characters without flags: v is
\* converted to a string, and the pattern is looked for in it
RegExpTest(source, v) == Includes(v.s, source)

(***************************************************************************)
(* DiscoveredService                                                       *)
(***************************************************************************)
NoTxt == <<[key |-> NoStr, value |-> NoStr]>>   \* service.txt is undefined

NoService == [ok |-> FALSE]

\* fqdn.split('.').slice(1, -1).join('.')
TypeLabels(fqdn) ==
  LET parts == Split(fqdn, ".")
  IN Join(SubSeq(parts, 2, Len(parts) - 1), <<".">>)

\* new DiscoveredService(name, fqdn, host, port, referer, ttl, lastSeen)
DiscoveredService(name, fqdn, host, port, ttl, lastSeen) ==
  LET serviceType == ServiceTypeFromString(TypeLabels(fqdn))
  IN [ok |-> TRUE, thrown |-> ~serviceType.ok,
      name |-> name, fqdn |-> fqdn, host |-> host, port |-> port,
      ttl |-> ttl, lastSeen |-> lastSeen,
      type |-> serviceType.name, protocol |-> serviceType.protocol,
      subtypes |-> <<>>, addresses |-> <<>>, txt |-> NoTxt,
      timer |-> "none", due |-> 0]

\* get expired(), read at time t
expired(s, t) == t > s.lastSeen + s.ttl * 1000

\* DiscoveredService.fromPTR at time t; thrown where the constructor, called
\* for each SRV record that matches, or ServiceType.fromString, called for
\* each subtype PTR record, throws
fromPTR(ptr, answers, t) ==
  LET srvs == SelectSeq(answers, LAMBDA a : a.type = "SRV" /\ nameEquals(a.name, ptr.data))
      txts == SelectSeq(answers, LAMBDA a : a.type = "TXT" /\ nameEquals(a.name, ptr.data))
      subs == SelectSeq(answers,
                LAMBDA a : /\ a.type = "PTR"
                           /\ nameEquals(a.data, ptr.data)
                           /\ Includes(a.name, <<".", "_", "s", "u", "b">>))
  IN IF srvs = <<>> THEN NoService
     ELSE LET srv == srvs[Len(srvs)]
              service == DiscoveredService(Split(srv.name, ".")[1], srv.name,
                                           srv.data.target, srv.data.port, ptr.ttl, t)
              subtypes == SelectSeq(
                            [i \in 1..Len(subs) |-> ServiceTypeFromString(subs[i].name).subtype],
                            LAMBDA x : x # NoStr)
              addrs == SelectSeq(answers,
                         LAMBDA a : a.type \in {"A", "AAAA"}
                                    /\ nameEquals(a.name, service.host))
          IN [service EXCEPT
                !.thrown =
                   \/ \E k \in 1..Len(srvs) :
                        ~ServiceTypeFromString(TypeLabels(srvs[k].name)).ok
                   \/ \E k \in 1..Len(subs) : ~ServiceTypeFromString(subs[k].name).ok,
                !.txt = IF txts = <<>> THEN NoTxt ELSE decodeTXT(txts[Len(txts)].data),
                !.subtypes = subtypes,
                !.addresses = [i \in 1..Len(addrs) |-> addrs[i].data]]

\* DiscoveredService.fromResponse at time t
fromResponse(packet, t) ==
  LET answers == SelectSeq(packet.answers \o packet.additionals, LAMBDA a : a.ttl > 0)
      found == [i \in 1..Len(answers) |->
                  IF answers[i].type = "PTR" THEN fromPTR(answers[i], answers, t)
                  ELSE NoService]
  IN SelectSeq(found, LAMBDA s : s.ok)

(***************************************************************************)
(* Browser                                                                 *)
(***************************************************************************)
MaxResponses == 2   \* responses a run of SpecBrowser delivers
MaxBrowserOps == 2  \* start(), stop() and update() calls in a run of SpecBrowser
MaxLateMs == 2      \* milliseconds by which a run lets the clock pass a moment

NoFilter == [none |-> TRUE]

NoName == [kind |-> "none"]

Tcp == <<"t", "c", "p">>
Udp == <<"u", "d", "p">>

\* The filters a browser of the model is made with
Filters ==
  { NoFilter,
    [protocol |-> Tcp, type |-> <<"t">>, subtypes |-> <<>>, name |-> NoName, txt |-> <<>>],
    [protocol |-> Tcp, type |-> <<"t">>, subtypes |-> <<>>,
     name |-> [kind |-> "string", s |-> <<"A">>], txt |-> <<>>],
    [protocol |-> Tcp, type |-> <<"t">>, subtypes |-> <<>>,
     name |-> [kind |-> "regex", s |-> <<"a">>], txt |-> <<>>],
    [protocol |-> Tcp, type |-> <<"t">>, subtypes |-> << <<"x">> >>, name |-> NoName,
     txt |-> <<>>],
    [protocol |-> Tcp, type |-> <<"t">>, subtypes |-> <<>>, name |-> NoName,
     txt |-> <<[key |-> <<"k">>, kind |-> "string", s |-> <<"v">>]>>],
    [protocol |-> Udp, type |-> <<"u">>, subtypes |-> <<>>, name |-> NoName,
     txt |-> <<[key |-> <<"k">>, kind |-> "regex", s |-> <<"w">>]>>],
    [protocol |-> Tcp, type |-> <<"t">>, subtypes |-> <<>>, name |-> NoName,
     txt |-> <<[key |-> <<"c", "o", "n", "s", "t", "r", "u", "c", "t", "o", "r">>,
                kind |-> "regex", s |-> <<"O">>]>>] }

\* The services other hosts announce: their options and the ttl they set
Announced ==
  { [protocol |-> Tcp, type |-> <<"t">>, subtypes |-> <<>>, name |-> <<"a">>,
     port |-> 3001, txt |-> <<>>, probe |-> FALSE, probeAutoResolve |-> TRUE],
    [protocol |-> Tcp, type |-> <<"t">>, subtypes |-> << <<"x">> >>, name |-> <<"A">>,
     port |-> 3002, txt |-> <<[key |-> <<"k">>, value |-> <<"v">>]>>,
     probe |-> FALSE, probeAutoResolve |-> TRUE],
    [protocol |-> Udp, type |-> <<"u">>, subtypes |-> <<>>, name |-> <<"b">>,
     port |-> 3003, txt |-> <<[key |-> <<"k">>, value |-> <<"w">>]>>,
     probe |-> FALSE, probeAutoResolve |-> TRUE] }

PacketTTLs == {0, 1, 2}

\* The announcement (ttl > 0) or goodbye (ttl = 0) of a service made with
\* options o, as Registry.announce and Registry.goodbye send it
PacketOf(o, ttl) ==
  LET c == NewService(o)
      recs == getRecords(c, [name |-> c.name0, fqdn |-> MakeFqdn(c.name0, c.type)])
  IN [kind |-> "response", answers |-> [i \in 1..Len(recs) |-> [recs[i] EXCEPT !.ttl = ttl]],
      additionals |-> <<>>]

\* No 'response' event yet
NoPacket == [kind |-> "none", answers |-> <<>>, additionals |-> <<>>, threw |-> FALSE]

\* A packet that the browser has handled, and whether an exception left the
\* handler
Handled(packet, threw) ==
  [kind |-> packet.kind, answers |-> packet.answers, additionals |-> packet.additionals,
   threw |-> threw]

\* findOne has not been called
NoFinder ==
  [state |-> "none", timer |-> FALSE, listens |-> FALSE, resolves |-> 0, result |-> NoService]

VARIABLES
  filter,        \* Browser.filter
  listening,     \* Browser.onresponse is set
  browserServices,  \* Browser.services, each with its TTL timer
  now,           \* Date.now(), from the browser's construction
  emitted,       \* the events of the last handler
  queried,       \* the names the last update() asked for
  finder,        \* DNSSD.findOne: its promise and its timeout timer
  received,      \* the packet of the last 'response' event the browser handled, and
                 \* whether its handler threw
  responsesLeft, browserOpsLeft, lateLeft

bvars == <<filter, listening, browserServices, now, emitted, queried, finder, received,
           responsesLeft, browserOpsLeft, lateLeft>>

\* Browser.queryNames
queryNames ==
  IF filter = NoFilter
    THEN << <<"_", "s", "e", "r", "v", "i", "c", "e", "s", ".", "_", "d", "n", "s", "-",
              "s", "d", ".", "_", "u", "d", "p">> \o TLD >>
    ELSE LET types == IF Len(filter.subtypes) > 0
                        THEN [i \in 1..Len(filter.subtypes) |->
                                ServiceTypeToString(filter.type, filter.protocol,
                                                    filter.subtypes[i])]
                        ELSE <<ServiceTypeToString(filter.type, filter.protocol, NoStr)>>
         IN [i \in 1..Len(types) |->
               IF filter.name.kind = "string"
                 THEN filter.name.s \o <<".">> \o types[i] \o TLD
                 ELSE types[i] \o TLD]

\* One entry of filter.txt against service.txt
TxtEntryMatches(e, txt) ==
  IF txt = NoTxt THEN FALSE
  ELSE LET v == ObjGet(txt, e.key)
       IN /\ v # Undefined
          /\ e.kind = "string" => (v.kind = "string" /\ e.s = v.s)
          /\ e.kind = "regex" => RegExpTest(e.s, v)

\* Browser.match
match(service) ==
  IF filter = NoFilter THEN TRUE
  ELSE /\ filter.protocol = service.protocol
       /\ filter.type = service.type
       /\ ~\E i \in 1..Len(filter.subtypes) :
             \A j \in 1..Len(service.subtypes) : service.subtypes[j] # filter.subtypes[i]
       /\ filter.name.kind = "string" => nameEquals(filter.name.s, service.name)
       /\ filter.name.kind = "regex"
            => RegExpTest(filter.name.s, [kind |-> "string", s |-> service.name])
       /\ \A i \in 1..Len(filter.txt) : TxtEntryMatches(filter.txt[i], service.txt)

\* The browser state a handler reads and writes
BProg == [services |-> browserServices, emitted |-> <<>>, threw |-> FALSE]

Emit(B, ev, service) == [B EXCEPT !.emitted = Append(B.emitted, [ev |-> ev, service |-> service])]

\* Browser.setupTTLTimer at time t: the service with its timer armed
setupTTLTimer(service, t) ==
  [service EXCEPT !.timer = "armed", !.due = t + service.ttl * 1000]

Known(list, fqdn) == \E i \in 1..Len(list) : nameEquals(list[i].fqdn, fqdn)

FirstKnown(list, fqdn) ==
  CHOOSE i \in 1..Len(list) :
    /\ nameEquals(list[i].fqdn, fqdn)
    /\ \A j \in 1..(i - 1) : ~nameEquals(list[j].fqdn, fqdn)

\* Browser.removeService
removeService(B, fqdn) ==
  IF Known(B.services, fqdn)
    THEN LET i == FirstKnown(B.services, fqdn)
         IN Emit([B EXCEPT !.services = RemoveAt(B.services, i)], "down", B.services[i])
    ELSE B

\* Browser.addService at time t
addService(B, service, t) ==
  IF ~match(service) THEN B
  ELSE LET s == setupTTLTimer(service, t)
       IN Emit([B EXCEPT !.services = Append(B.services, s)], "up", s)

\* updateService as it would be if it took the old entry out and pushed the
\* new one
updateServiceAtEnd(B, service, t) ==
  IF ~match(service) THEN removeService(B, service.fqdn)
  ELSE LET s == setupTTLTimer(service, t)
       IN Emit([B EXCEPT !.services =
                  Append(SelectSeq(B.services,
                                   LAMBDA x : ~nameEquals(x.fqdn, service.fqdn)), s)],
               "update", s)

\* Browser.updateService at time t
updateService(B, service, t) ==
  IF ~match(service) THEN removeService(B, service.fqdn)
  ELSE LET s == setupTTLTimer(service, t)
       IN Emit([B EXCEPT !.services =
                  [i \in 1..Len(B.services) |->
                     IF nameEquals(B.services[i].fqdn, service.fqdn) THEN s
                     ELSE B.services[i]]], "update", s)

\* The first loop of onresponse: the goodbyes
RECURSIVE RemoveGone(_, _)
RemoveGone(B, answers) ==
  IF answers = <<>> THEN B
  ELSE LET a == Head(answers)
       IN RemoveGone(IF a.type = "PTR" /\ a.ttl = 0 THEN removeService(B, a.data) ELSE B,
                     Tail(answers))

\* The second loop as it would be if it compared the fqdns exactly
RECURSIVE DiscoverExact(_, _, _)
DiscoverExact(B, found, t) ==
  IF found = <<>> THEN B
  ELSE LET service == Head(found)
       IN DiscoverExact(IF \E i \in 1..Len(B.services) : B.services[i].fqdn = service.fqdn
                          THEN updateService(B, service, t)
                          ELSE addService(B, service, t),
                        Tail(found), t)

\* The second loop of onresponse: the services found
RECURSIVE Discover(_, _, _)
Discover(B, found, t) ==
  IF found = <<>> THEN B
  ELSE LET service == Head(found)
       IN Discover(IF Known(B.services, service.fqdn) THEN updateService(B, service, t)
                   ELSE addService(B, service, t),
                   Tail(found), t)

\* new DiscoveredService(...) threw in fromPTR: the exception leaves
\* fromResponse and the handler that called it
Threw(found) == \E k \in 1..Len(found) : found[k].thrown

\* onresponse as it would be if it looked for services before it handled the
\* goodbyes
onresponseDiscoverFirst(B, packet, t) ==
  LET found == fromResponse(packet, t)
  IN IF Threw(found) THEN [B EXCEPT !.threw = TRUE]
     ELSE RemoveGone(Discover(B, found, t), packet.answers \o packet.additionals)

\* onresponse, the closure of Browser.start
onresponse(B, packet, t) ==
  LET G == RemoveGone(B, packet.answers \o packet.additionals)
      found == fromResponse(packet, t)
  IN IF Threw(found) THEN [G EXCEPT !.threw = TRUE] ELSE Discover(G, found, t)

(***************************************************************************)
(* The publisher side: services, registry, responder table, transport      *)
(***************************************************************************)
VARIABLES
  cfg,              \* Service: the fields fixed at construction
  svc,              \* Service: name, fqdn, started, published, destroyed
  startedServices,  \* Registry.startedServices
  table,            \* MDNSServer.typeToRecords
  calls,            \* the invocations of Registry.onServiceStart
  rounds,           \* the invocations of Registry.probe
  ioq,              \* the transport: pending send callbacks and packets in flight
  downs,            \* per service: down events since its last up
  stopSeen,         \* per service: stop() found it published since its last up
  lastNoop,         \* the last start() that found the service started
  lastGoodbye,      \* the last goodbye whose send completed: how its promise settled,
                    \* and the services it unpublished that start() was not called on since
  lastMake,         \* the last new Service(options): whether it threw
  destroyCalled,    \* destroy() has been called
  opsLeft, errsLeft, peerLeft,
  txLimit           \* the announcements of one chain that a run follows

pvars == <<cfg, svc, startedServices, table, calls, rounds, ioq, downs, stopSeen, lastNoop,
           lastGoodbye, lastMake, destroyCalled, opsLeft, errsLeft, peerLeft, txLimit>>

\* A ServiceType on its way through toString() and fromString()
VARIABLES
  serviceType,   \* a ServiceType: name, protocol, subtype
  typeString,    \* what toString() returned for it
  parsed         \* what fromString() made of that string

tvars == <<serviceType, typeString, parsed>>

vars == <<pvars, bvars, tvars>>

\* No ServiceType is on its way
NoType == [name |-> <<>>, protocol |-> <<>>, subtype |-> NoStr]
NotParsed == [ok |-> FALSE, name |-> NoStr, protocol |-> NoStr, subtype |-> NoStr]

TypeOff ==
  /\ serviceType = NoType
  /\ typeString = NoStr
  /\ parsed = NotParsed

\* The program state a handler reads and writes
Prog ==
  [svc |-> svc, started |-> startedServices, table |-> table, calls |-> calls,
   rounds |-> rounds, ioq |-> ioq, downs |-> downs, stopSeen |-> stopSeen]

Commit(P) ==
  /\ svc' = P.svc
  /\ startedServices' = P.started
  /\ table' = P.table
  /\ calls' = P.calls
  /\ rounds' = P.rounds
  /\ ioq' = P.ioq
  /\ downs' = P.downs
  /\ stopSeen' = P.stopSeen

Min(a, b) == IF a < b THEN a ELSE b

Send(P, item) == [P EXCEPT !.ioq = Append(P.ioq, item)]

(***************************************************************************)
(* Service events                                                          *)
(***************************************************************************)
\* service.emit('up'): every pending start() of the service whose
\* onServiceStart has reached service.on('up', resolve) resolves
EmitUp(P, s) ==
  [P EXCEPT
     !.downs[s] = 0,
     !.stopSeen[s] = FALSE,
     !.calls = [i \in 1..Len(P.calls) |->
        LET c == P.calls[i]
        IN IF c.svc = s /\ c.promise = "pending"
             THEN IF c.stage = "announcing"
                    THEN [c EXCEPT !.promise = "up", !.ups = Min(c.ups + 1, EventCap),
                                   !.resPub = P.svc[s].published]
                    ELSE [c EXCEPT !.ups = Min(c.ups + 1, EventCap)]
             ELSE c]]

\* service.emit('down')
EmitDown(P, s) == [P EXCEPT !.downs[s] = Min(P.downs[s] + 1, EventCap)]

(***************************************************************************)
(* Registry                                                                *)
(***************************************************************************)
GoodbyeRecords(P, services) ==
  Flatten([i \in 1..Len(services) |->
    LET recs == getRecords(cfg[services[i]], P.svc[services[i]])
    IN [j \in 1..Len(recs) |-> [recs[j] EXCEPT !.ttl = 0]]])

\* What the .finally of onServiceStop / unpublishAll does to startedServices
Forget(started, caller, s) ==
  IF caller = "unpublishAll" THEN <<>>
  ELSE IF IndexOf(started, s) # 0 THEN RemoveAt(started, IndexOf(started, s))
  ELSE started

\* goodbye as it would be without this.server.unregister(records)
goodbyeKeepsTable(P, services, caller, s) ==
  LET publishedServices == SelectSeq(services, LAMBDA x : P.svc[x].published)
      records == GoodbyeRecords(P, publishedServices)
  IN IF Len(publishedServices) = 0 \/ Len(records) = 0
       THEN [P EXCEPT !.started = Forget(P.started, caller, s)]
       ELSE Send(P, [kind |-> "goodbyeCb", svcs |-> publishedServices, recs |-> records,
                     caller |-> caller, svc |-> s, running |-> services])

\* goodbye as it would be if it did not pick the published services
goodbyeOfAll(P, services, caller, s) ==
  LET records == GoodbyeRecords(P, services)
  IN IF Len(services) = 0 \/ Len(records) = 0
       THEN [P EXCEPT !.started = Forget(P.started, caller, s)]
       ELSE Send([P EXCEPT !.table = unregister(P.table, records)],
                 [kind |-> "goodbyeCb", svcs |-> services, recs |-> records,
                  caller |-> caller, svc |-> s, running |-> services])

\* Registry.goodbye(services) with the .finally of its caller, up to the send
goodbye(P, services, caller, s) ==
  LET publishedServices == SelectSeq(services, LAMBDA x : P.svc[x].published)
      records == GoodbyeRecords(P, publishedServices)
  IN IF Len(publishedServices) = 0 \/ Len(records) = 0
       THEN [P EXCEPT !.started = Forget(P.started, caller, s)]
       ELSE Send([P EXCEPT !.table = unregister(P.table, records)],
                 [kind |-> "goodbyeCb", svcs |-> publishedServices, recs |-> records,
                  caller |-> caller, svc |-> s, running |-> services])

\* Registry.onServiceStop
onServiceStop(P, s) == goodbye(P, <<s>>, "stop", s)

\* Service.stop
ServiceStop(P, s) ==
  IF P.svc[s].started
    THEN onServiceStop([P EXCEPT !.svc[s].started = FALSE,
                                 !.stopSeen[s] = P.stopSeen[s] \/ P.svc[s].published], s)
    ELSE P

\* The guard of send and of broadcast
Inactive(P, s) == ~P.svc[s].started \/ P.svc[s].destroyed

\* broadcast, the closure of Registry.announce, for call c
broadcast(P, c) ==
  IF Inactive(P, P.calls[c].svc)
    THEN [P EXCEPT !.calls[c].ann = "off"]
    ELSE Send([P EXCEPT !.calls[c].ann = "tx", !.calls[c].tx = P.calls[c].tx + 1],
              [kind |-> "announceCb", call |-> c, recs |-> P.calls[c].records])

\* Registry.announce, then service.on('up', resolve) of onServiceStart
announce(P, c) ==
  LET s == P.calls[c].svc
      records == getRecords(cfg[s], P.svc[s])
  IN broadcast([P EXCEPT !.table = register(P.table, records),
                         !.calls[c].records = records,
                         !.calls[c].delay = InitialDelay,
                         !.calls[c].stage = "announcing"], c)

\* Registry.probe up to its return: the listener is on, the first send is timed
probe(P, c) ==
  [P EXCEPT !.rounds = Append(P.rounds,
               [call |-> c, svc |-> P.calls[c].svc, phase |-> "wait", sent |-> FALSE,
                retries |-> 0, listening |-> TRUE, resolved |-> FALSE]),
            !.calls[c].round = Len(P.rounds) + 1]

\* onServiceStart returns without announcing: the promise of start() resolves
ReturnStopped(P, c) ==
  LET s == P.calls[c].svc
      Q == ServiceStop(P, s)
  IN [Q EXCEPT !.calls[c].stage = "returned", !.calls[c].promise = "conflict",
               !.calls[c].resPub = Q.svc[s].published]

\* `${originalName} (${attempt})`
Renamed(originalName, attempt) ==
  originalName \o <<" ", "(">> \o NumToStr(attempt) \o <<")">>

\* onServiceStart from the point where `await this.probe(service)` returns exists
AfterProbe(P, c, exists) ==
  LET call == P.calls[c]
      s == call.svc
  IN IF cfg[s].probeAutoResolve
       THEN IF ~exists THEN announce(P, c)
            ELSE LET attempt == call.attempt + 1
                     name == Renamed(call.originalName, attempt)
                     Q == [P EXCEPT !.calls[c].attempt = attempt,
                                    !.svc[s].name = name,
                                    !.svc[s].fqdn = name \o call.fqdnSuffix]
                 IN IF attempt <= MAX_PROBE_AUTO_RESOLVE_ATTEMPTS
                      THEN probe(Q, c)
                      ELSE ReturnStopped(Q, c)
       ELSE IF exists THEN ReturnStopped(P, c)
            ELSE announce(P, c)

\* The announcements of service s handed to the transport so far, over all
\* its starts
Transmitted(cs, s) ==
  Cardinality({x \in (1..Len(cs)) \X (1..MaxAnnounce + ChainAnnounce) :
                 cs[x[1]].svc = s /\ x[2] <= cs[x[1]].tx})

\* Registry.onServiceStart up to its first await
onServiceStart(P, s) ==
  LET c == Len(P.calls) + 1
      Q == [P EXCEPT !.started = Append(P.started, s),
                     !.calls = Append(P.calls,
                        [svc |-> s, stage |-> "probing",
                         originalName |-> P.svc[s].name,
                         fqdnSuffix |-> SubstringFrom(P.svc[s].fqdn, Len(P.svc[s].name)),
                         attempt |-> 1, round |-> 0, records |-> <<>>, delay |-> 0,
                         ann |-> "none", tx |-> 0, promise |-> "pending", ups |-> 0,
                         resPub |-> FALSE,
                         others |-> {x \in Svc : P.svc[x].published},
                         txBefore |-> Transmitted(P.calls, s)])]
  IN IF cfg[s].probe THEN probe(Q, c) ELSE announce(Q, c)

\* done(exists), the closure of Registry.probe, for round r; the timer it
\* clears is the one the last query callback set
done(P, r) ==
  [P EXCEPT !.rounds[r].listening = FALSE,
            !.rounds[r].resolved = TRUE,
            !.rounds[r].phase = IF P.rounds[r].phase \in {"timerSend", "timerDone", "dead"}
                                  THEN "end" ELSE P.rounds[r].phase]

\* done(exists) and the continuation of the await, when the round's promise
\* was still pending
doneAndResume(P, r, exists) ==
  IF P.rounds[r].resolved THEN done(P, r)
  ELSE AfterProbe(done(P, r), P.rounds[r].call, exists)

HasName(recs, fqdn) == \E i \in 1..Len(recs) : nameEquals(recs[i].name, fqdn)

\* onresponse as it would be if it compared with service.name
ConflictsByName(P, r, packet) ==
  /\ P.rounds[r].listening
  /\ P.rounds[r].sent
  /\ \/ HasName(packet.answers, P.svc[P.rounds[r].svc].name)
     \/ HasName(packet.additionals, P.svc[P.rounds[r].svc].name)

\* onresponse, the closure of Registry.probe: does round r see a conflict?
Conflicts(P, r, packet) ==
  /\ P.rounds[r].listening
  /\ P.rounds[r].sent
  /\ \/ HasName(packet.answers, P.svc[P.rounds[r].svc].fqdn)
     \/ HasName(packet.additionals, P.svc[P.rounds[r].svc].fqdn)

\* The continuations of the rounds hit, in the order their promises resolved
RECURSIVE ResumeAll(_, _)
ResumeAll(P, hit) ==
  IF hit = <<>> THEN P
  ELSE ResumeAll(AfterProbe(P, P.rounds[Head(hit)].call, TRUE), Tail(hit))

RECURSIVE DoneAll(_, _)
DoneAll(P, hit) == IF hit = <<>> THEN P ELSE DoneAll(done(P, Head(hit)), Tail(hit))

\* The 'response' event of the transport, as the probe listeners see it
OnResponseProbes(P, packet) ==
  LET idx == [i \in 1..Len(P.rounds) |-> i]
      hit == SelectSeq(idx, LAMBDA r : Conflicts(P, r, packet))
  IN ResumeAll(DoneAll(P, hit), hit)

(***************************************************************************)
(* The initial state: the services are constructed, nothing is started     *)
(***************************************************************************)
\* The state after the services have been constructed from their options
Constructed(ops, errs, peer, tx) ==
  /\ svc = [s \in Svc |->
              [name |-> cfg[s].name0, fqdn |-> MakeFqdn(cfg[s].name0, cfg[s].type),
               started |-> FALSE, published |-> FALSE, destroyed |-> FALSE]]
  /\ startedServices = <<>>
  /\ table = <<>>
  /\ calls = <<>>
  /\ rounds = <<>>
  /\ ioq = <<>>
  /\ downs = [s \in Svc |-> 0]
  /\ stopSeen = [s \in Svc |-> FALSE]
  /\ lastNoop = [svc |-> 0, pub |-> FALSE, ups |-> 0]
  /\ lastGoodbye = [caller |-> "none", svc |-> 0, rejected |-> FALSE, unpublished |-> {}]
  /\ lastMake = [op |-> "none", svc |-> 0, threw |-> FALSE]
  /\ destroyCalled = FALSE
  /\ opsLeft = ops
  /\ errsLeft = errs
  /\ peerLeft = peer
  /\ txLimit = tx

InitPublisher(ops, errs, peer, tx) ==
  /\ cfg \in {[s \in Svc |-> NewService(OptionsOf(s, m[s]))] : m \in ModeChoices}
  /\ Constructed(ops, errs, peer, tx)

\* No browser is made
BrowserOff ==
  /\ filter = NoFilter
  /\ listening = FALSE
  /\ browserServices = <<>>
  /\ now = 0
  /\ emitted = <<>>
  /\ queried = <<>>
  /\ finder = NoFinder
  /\ received = NoPacket
  /\ responsesLeft = 0
  /\ browserOpsLeft = 0
  /\ lateLeft = 0

InitWith(ops, errs, peer, tx) == InitPublisher(ops, errs, peer, tx) /\ BrowserOff /\ TypeOff

Init == InitWith(MaxOps, MaxErrors, 0, MaxAnnounce)

(***************************************************************************)
(* The API, called by the user between any two handlers                    *)
(***************************************************************************)
CanCall == opsLeft > 0 /\ ~destroyCalled

\* Service.start()
Start(s) ==
  /\ CanCall
  /\ opsLeft' = opsLeft - 1
  /\ IF svc[s].started
       THEN /\ lastNoop' = [svc |-> s, pub |-> svc[s].published, ups |-> 0]
            /\ UNCHANGED <<svc, startedServices, table, calls, rounds, ioq, downs, stopSeen>>
       ELSE /\ Commit(onServiceStart([Prog EXCEPT !.svc[s].started = TRUE], s))
            /\ UNCHANGED lastNoop
  /\ lastGoodbye' = [lastGoodbye EXCEPT !.unpublished = @ \ {s}]
  /\ UNCHANGED <<cfg, lastMake, txLimit, destroyCalled, errsLeft, peerLeft>>
  /\ UNCHANGED <<bvars, tvars>>

\* Service.stop()
Stop(s) ==
  /\ CanCall
  /\ opsLeft' = opsLeft - 1
  /\ Commit(ServiceStop(Prog, s))
  /\ UNCHANGED <<cfg, lastMake, txLimit, lastNoop, lastGoodbye, destroyCalled, errsLeft, peerLeft>>
  /\ UNCHANGED <<bvars, tvars>>

\* Registry.unpublishAll()
UnpublishAll ==
  /\ CanCall
  /\ opsLeft' = opsLeft - 1
  /\ Commit(goodbye(Prog, startedServices, "unpublishAll", 0))
  /\ UNCHANGED <<cfg, lastMake, txLimit, lastNoop, lastGoodbye, destroyCalled, errsLeft, peerLeft>>
  /\ UNCHANGED <<bvars, tvars>>

\* destroy() as it would be if it also said goodbye
DestroyWithGoodbye ==
  /\ CanCall
  /\ opsLeft' = opsLeft - 1
  /\ destroyCalled' = TRUE
  /\ Commit(goodbye([Prog EXCEPT !.svc = [s \in Svc |->
                        IF s \in Range(startedServices)
                          THEN [svc[s] EXCEPT !.destroyed = TRUE] ELSE svc[s]]],
                    startedServices, "unpublishAll", 0))
  /\ UNCHANGED <<cfg, lastMake, txLimit, lastNoop, lastGoodbye, errsLeft, peerLeft>>
  /\ UNCHANGED <<bvars, tvars>>

\* Registry.destroy(), as DNSSD.destroy() calls it
Destroy ==
  /\ CanCall
  /\ opsLeft' = opsLeft - 1
  /\ destroyCalled' = TRUE
  /\ svc' = [s \in Svc |->
               IF s \in Range(startedServices) THEN [svc[s] EXCEPT !.destroyed = TRUE]
               ELSE svc[s]]
  /\ UNCHANGED <<cfg, lastMake, txLimit, startedServices, table, calls, rounds, ioq, downs, stopSeen, lastNoop, lastGoodbye,
                 errsLeft, peerLeft>>
  /\ UNCHANGED <<bvars, tvars>>

(***************************************************************************)
(* The transport.  Sends complete in the order they were issued; a send    *)
(* that completes without error puts its packet on the link, and the       *)
(* socket hears its own packets.                                           *)
(***************************************************************************)
HeadIs(kind) == ioq # <<>> /\ Head(ioq).kind = kind

Popped == [Prog EXCEPT !.ioq = Tail(ioq)]

ErrChoice(err) ==
  /\ err => errsLeft > 0
  /\ errsLeft' = IF err THEN errsLeft - 1 ELSE errsLeft

OnWire(P, err, packet) == IF err THEN P ELSE Send(P, packet)

\* The callback as it would be if two queries were enough
QueryCbTwo(err) ==
  /\ HeadIs("queryCb")
  /\ ErrChoice(err)
  /\ LET r == Head(ioq).round
         n == rounds[r].retries + 1
         P == [Popped EXCEPT !.rounds[r].sent = TRUE,
                             !.rounds[r].retries = n,
                             !.rounds[r].phase =
                                IF n < ProbeRetries - 1 THEN "timerSend" ELSE "timerDone"]
     IN Commit(OnWire(P, err, [kind |-> "query", name |-> Head(ioq).name, qtype |-> "ANY"]))
  /\ UNCHANGED <<cfg, lastMake, txLimit, lastNoop, lastGoodbye, destroyCalled, opsLeft, peerLeft>>
  /\ UNCHANGED <<bvars, tvars>>

\* The callback of mdns.query in send, the closure of Registry.probe
QueryCb(err) ==
  /\ HeadIs("queryCb")
  /\ ErrChoice(err)
  /\ LET r == Head(ioq).round
         n == rounds[r].retries + 1
         P == [Popped EXCEPT !.rounds[r].sent = TRUE,
                             !.rounds[r].retries = n,
                             !.rounds[r].phase =
                                IF n < ProbeRetries THEN "timerSend" ELSE "timerDone"]
     IN Commit(OnWire(P, err, [kind |-> "query", name |-> Head(ioq).name, qtype |-> "ANY"]))
  /\ UNCHANGED <<cfg, lastMake, txLimit, lastNoop, lastGoodbye, destroyCalled, opsLeft, peerLeft>>
  /\ UNCHANGED <<bvars, tvars>>

\* The 'query' event: MDNSServer.respond for the packet's one question
RecvQuery ==
  /\ HeadIs("query")
  /\ LET q == Head(ioq)
         answers == AnswersOf(table, q.qtype, q.name)
     IN Commit(IF Len(answers) = 0 THEN Popped
               ELSE Send(Popped, [kind |-> "respondedCb", answers |-> answers,
                                   additionals |-> AdditionalsOf(table, q.qtype, answers)]))
  /\ UNCHANGED <<cfg, lastMake, txLimit, lastNoop, lastGoodbye, destroyCalled, opsLeft, errsLeft, peerLeft>>
  /\ UNCHANGED <<bvars, tvars>>

\* The callback of mdns.respond in MDNSServer.respond
RespondedCb(err) ==
  /\ HeadIs("respondedCb")
  /\ ErrChoice(err)
  /\ Commit(OnWire(Popped, err, [kind |-> "response", answers |-> Head(ioq).answers,
                                 additionals |-> Head(ioq).additionals]))
  /\ UNCHANGED <<cfg, lastMake, txLimit, lastNoop, lastGoodbye, destroyCalled, opsLeft, peerLeft>>
  /\ UNCHANGED <<bvars, tvars>>

\* The callback as it would be if it emitted up before it set published
AnnounceDoneUpFirst(P, c) ==
  LET s == P.calls[c].svc
      Q == IF ~P.svc[s].published
             THEN [EmitUp(P, s) EXCEPT !.svc[s].published = TRUE]
             ELSE P
      delay == Q.calls[c].delay * REANNOUNCE_FACTOR
  IN [Q EXCEPT !.calls[c].delay = delay,
               !.calls[c].ann = IF delay < REANNOUNCE_MAX_MS /\ ~Q.svc[s].destroyed
                                  THEN "timer" ELSE "off"]

\* The callback as it would be if it armed the timer before it multiplied
\* the delay: the first timer waits 1000 ms
AnnounceDoneArmFirst(P, c) ==
  LET s == P.calls[c].svc
      Q == IF ~P.svc[s].published
             THEN EmitUp([P EXCEPT !.svc[s].published = TRUE], s)
             ELSE P
      delay == IF Q.calls[c].tx = 1 THEN Q.calls[c].delay
               ELSE Q.calls[c].delay * REANNOUNCE_FACTOR
  IN [Q EXCEPT !.calls[c].delay = delay,
               !.calls[c].ann = IF delay < REANNOUNCE_MAX_MS /\ ~Q.svc[s].destroyed
                                  THEN "timer" ELSE "off"]

\* The callback as it would be if it armed the timer whatever the delay and
\* the destroyed flag
AnnounceDoneArmAlways(P, c) ==
  LET s == P.calls[c].svc
      Q == IF ~P.svc[s].published
             THEN EmitUp([P EXCEPT !.svc[s].published = TRUE], s)
             ELSE P
      delay == Q.calls[c].delay * REANNOUNCE_FACTOR
  IN [Q EXCEPT !.calls[c].delay = delay, !.calls[c].ann = "timer"]

\* The callback of mdns.respond in broadcast
AnnounceDone(P, c) ==
  LET s == P.calls[c].svc
      Q == IF ~P.svc[s].published
             THEN EmitUp([P EXCEPT !.svc[s].published = TRUE], s)
             ELSE P
      delay == Q.calls[c].delay * REANNOUNCE_FACTOR
  IN [Q EXCEPT !.calls[c].delay = delay,
               !.calls[c].ann = IF delay < REANNOUNCE_MAX_MS /\ ~Q.svc[s].destroyed
                                  THEN "timer" ELSE "off"]

AnnounceCb(err) ==
  /\ HeadIs("announceCb")
  /\ ErrChoice(err)
  /\ Commit(OnWire(AnnounceDone(Popped, Head(ioq).call), err,
                   [kind |-> "response", answers |-> Head(ioq).recs, additionals |-> <<>>]))
  /\ UNCHANGED <<cfg, lastMake, txLimit, lastNoop, lastGoodbye, destroyCalled, opsLeft, peerLeft>>
  /\ UNCHANGED <<bvars, tvars>>

RECURSIVE MarkDown(_, _)
MarkDown(P, services) ==
  IF services = <<>> THEN P
  ELSE MarkDown(EmitDown([P EXCEPT !.svc[Head(services)].published = FALSE],
                         Head(services)), Tail(services))

\* The callback of mdns.respond in Registry.goodbye, and the .finally
GoodbyeDone(P, item) ==
  LET Q == MarkDown(P, item.svcs)
  IN [Q EXCEPT !.started = Forget(Q.started, item.caller, item.svc)]

\* The callback as it would be if the callers used .then for .finally
GoodbyeCbThen(err) ==
  /\ HeadIs("goodbyeCb")
  /\ ErrChoice(err)
  /\ Commit(OnWire(IF err THEN MarkDown(Popped, Head(ioq).svcs)
                   ELSE GoodbyeDone(Popped, Head(ioq)), err,
                   [kind |-> "response", answers |-> Head(ioq).recs, additionals |-> <<>>]))
  /\ lastGoodbye' = [caller |-> Head(ioq).caller, svc |-> Head(ioq).svc, rejected |-> err,
                      unpublished |-> Range(Head(ioq).svcs)]
  /\ UNCHANGED <<cfg, lastMake, txLimit, lastNoop, destroyCalled, opsLeft, peerLeft>>
  /\ UNCHANGED <<bvars, tvars>>

GoodbyeCb(err) ==
  /\ HeadIs("goodbyeCb")
  /\ ErrChoice(err)
  /\ Commit(OnWire(GoodbyeDone(Popped, Head(ioq)), err,
                   [kind |-> "response", answers |-> Head(ioq).recs, additionals |-> <<>>]))
  /\ lastGoodbye' = [caller |-> Head(ioq).caller, svc |-> Head(ioq).svc, rejected |-> err,
                      unpublished |-> Range(Head(ioq).svcs)]
  /\ UNCHANGED <<cfg, lastMake, txLimit, lastNoop, destroyCalled, opsLeft, peerLeft>>
  /\ UNCHANGED <<bvars, tvars>>

\* The 'response' event
RecvResponse ==
  /\ HeadIs("response")
  /\ Commit(OnResponseProbes(Popped, Head(ioq)))
  /\ UNCHANGED <<cfg, lastMake, txLimit, lastNoop, lastGoodbye, destroyCalled, opsLeft, errsLeft, peerLeft>>
  /\ UNCHANGED <<bvars, tvars>>

UpperChar(c) ==
  IF \E i \in 1..26 : LowerChars[i] = c
    THEN UpperChars[CHOOSE i \in 1..26 : LowerChars[i] = c]
    ELSE c

\* Another host on the link holds the name a service asks for, spelled in
\* capitals, and says so
PeerResponse(s) ==
  /\ peerLeft > 0
  /\ \E r \in 1..Len(rounds) : rounds[r].svc = s /\ rounds[r].listening
  /\ peerLeft' = peerLeft - 1
  /\ ioq' = Append(ioq, [kind |-> "response",
                         answers |-> <<[type |-> "TXT", name |-> [i \in 1..Len(svc[s].fqdn) |->
                                                     UpperChar(svc[s].fqdn[i])],
                                        ttl |-> DefaultTTL, data |-> <<>>]>>,
                         additionals |-> <<>>])
  /\ UNCHANGED <<cfg, lastMake, txLimit, svc, startedServices, table, calls, rounds, downs, stopSeen, lastNoop, lastGoodbye,
                 destroyCalled, opsLeft, errsLeft>>
  /\ UNCHANGED <<bvars, tvars>>

(***************************************************************************)
(* Timers.  The first probe waits Math.random() * 250 ms, which may be no  *)
(* time at all; every other timer waits 250 ms or more, and the transport  *)
(* has by then completed the sends and delivered the packets it held.      *)
(***************************************************************************)
\* send, the closure of Registry.probe
ProbeSendTick(r) ==
  /\ \/ rounds[r].phase = "wait"
     \/ rounds[r].phase = "timerSend" /\ ioq = <<>>
  /\ Commit(IF Inactive(Prog, rounds[r].svc)
              THEN [Prog EXCEPT !.rounds[r].phase = "dead"]
              ELSE Send([Prog EXCEPT !.rounds[r].phase = "query"],
                        [kind |-> "queryCb", round |-> r, name |-> svc[rounds[r].svc].fqdn]))
  /\ UNCHANGED <<cfg, lastMake, txLimit, lastNoop, lastGoodbye, destroyCalled, opsLeft, errsLeft, peerLeft>>
  /\ UNCHANGED <<bvars, tvars>>

\* done, called by the timer of the third query
ProbeDoneTick(r) ==
  /\ rounds[r].phase = "timerDone"
  /\ ioq = <<>>
  /\ Commit(doneAndResume(Prog, r, FALSE))
  /\ UNCHANGED <<cfg, lastMake, txLimit, lastNoop, lastGoodbye, destroyCalled, opsLeft, errsLeft, peerLeft>>
  /\ UNCHANGED <<bvars, tvars>>

\* broadcast, called by the re-announce timer
BroadcastTick(c) ==
  /\ calls[c].ann = "timer"
  /\ ioq = <<>>
  /\ calls[c].tx < txLimit
  /\ Commit(broadcast(Prog, c))
  /\ UNCHANGED <<cfg, lastMake, txLimit, lastNoop, lastGoodbye, destroyCalled, opsLeft, errsLeft, peerLeft>>
  /\ UNCHANGED <<bvars, tvars>>

Next ==
  \/ \E s \in Svc : Start(s)
  \/ \E s \in Svc : Stop(s)
  \/ UnpublishAll
  \/ Destroy
  \/ \E err \in BOOLEAN : QueryCb(err)
  \/ RecvQuery
  \/ \E err \in BOOLEAN : RespondedCb(err)
  \/ \E err \in BOOLEAN : AnnounceCb(err)
  \/ \E err \in BOOLEAN : GoodbyeCb(err)
  \/ RecvResponse
  \/ \E r \in 1..Len(rounds) : ProbeSendTick(r)
  \/ \E r \in 1..Len(rounds) : ProbeDoneTick(r)
  \/ \E c \in 1..Len(calls) : BroadcastTick(c)

Spec == Init /\ [][Next]_vars

\* Fewer calls, and every announcement chain followed to its end
InitChain == InitWith(ChainOps, 0, 0, ChainAnnounce)

SpecChain == InitChain /\ [][Next]_vars

\* The same program on a link where another host answers
InitPeer == InitWith(PeerOps, 0, MaxPeer, MaxAnnounce)

NextPeer ==
  \/ Next
  \/ \E s \in Svc : PeerResponse(s)

SpecPeer == InitPeer /\ [][NextPeer]_vars

(***************************************************************************)
(* The browser's actions.  The publisher side stands still.                *)
(***************************************************************************)
BCommit(B) ==
  /\ browserServices' = B.services
  /\ emitted' = B.emitted

CanCallBrowser == browserOpsLeft > 0

\* Browser.start()
BrowserStart ==
  /\ CanCallBrowser
  /\ browserOpsLeft' = browserOpsLeft - 1
  /\ emitted' = <<>>
  /\ IF listening
       THEN UNCHANGED <<listening, queried>>
       ELSE listening' = TRUE /\ queried' = queryNames
  /\ UNCHANGED <<filter, browserServices, now, responsesLeft, lateLeft>>
  /\ UNCHANGED <<finder, received>>
  /\ UNCHANGED <<pvars, tvars>>

\* stop() as it would be if it kept the known list
BrowserStopKeepsList ==
  /\ CanCallBrowser
  /\ browserOpsLeft' = browserOpsLeft - 1
  /\ emitted' = <<>>
  /\ listening' = FALSE
  /\ UNCHANGED <<filter, browserServices, now, queried, responsesLeft, lateLeft>>
  /\ UNCHANGED <<finder, received>>
  /\ UNCHANGED <<pvars, tvars>>

\* Browser.stop()
BrowserStop ==
  /\ CanCallBrowser
  /\ browserOpsLeft' = browserOpsLeft - 1
  /\ emitted' = <<>>
  /\ IF listening
       THEN listening' = FALSE /\ browserServices' = <<>>
       ELSE UNCHANGED <<listening, browserServices>>
  /\ UNCHANGED <<filter, now, queried, responsesLeft, lateLeft>>
  /\ UNCHANGED <<finder, received>>
  /\ UNCHANGED <<pvars, tvars>>

\* Browser.update()
BrowserUpdate ==
  /\ CanCallBrowser
  /\ browserOpsLeft' = browserOpsLeft - 1
  /\ emitted' = <<>>
  /\ queried' = queryNames
  /\ UNCHANGED <<filter, listening, browserServices, now, responsesLeft, lateLeft>>
  /\ UNCHANGED <<finder, received>>
  /\ UNCHANGED <<pvars, tvars>>

\* The 'response' event of the transport, for a packet of another host
BrowserResponse(packet) ==
  /\ listening
  /\ responsesLeft > 0
  /\ responsesLeft' = responsesLeft - 1
  /\ \E R \in {onresponse(BProg, packet, now)} :
       BCommit(R) /\ received' = Handled(packet, R.threw)
  /\ UNCHANGED <<filter, listening, now, queried, browserOpsLeft, lateLeft>>
  /\ UNCHANGED finder
  /\ UNCHANGED <<pvars, tvars>>

\* The callback of the TTL timer of browserServices[i]
TTLTimer(i) ==
  /\ browserServices[i].timer = "armed"
  /\ now >= browserServices[i].due
  /\ LET B == [BProg EXCEPT !.services[i].timer = "none"]
     IN BCommit(IF expired(browserServices[i], now)
                  THEN removeService(B, browserServices[i].fqdn)
                  ELSE B)
  /\ UNCHANGED <<filter, listening, now, queried, responsesLeft, browserOpsLeft, lateLeft>>
  /\ UNCHANGED <<finder, received>>
  /\ UNCHANGED <<pvars, tvars>>

Armed == {i \in 1..Len(browserServices) : browserServices[i].timer = "armed"}

Dues == {browserServices[i].due : i \in Armed}

\* Time passes until the next timer is due
ClockToDue ==
  /\ \E d \in Dues : d > now
  /\ now' = CHOOSE d \in Dues : d > now /\ \A e \in Dues : e > now => d <= e
  /\ UNCHANGED <<filter, listening, browserServices, emitted, queried,
                 responsesLeft, browserOpsLeft, lateLeft>>
  /\ UNCHANGED <<finder, received>>
  /\ UNCHANGED <<pvars, tvars>>

\* A millisecond passes
ClockMs ==
  /\ lateLeft > 0
  /\ lateLeft' = lateLeft - 1
  /\ now' = now + 1
  /\ UNCHANGED <<filter, listening, browserServices, emitted, queried,
                 responsesLeft, browserOpsLeft>>
  /\ UNCHANGED <<finder, received>>
  /\ UNCHANGED <<pvars, tvars>>

NextBrowser ==
  \/ BrowserStart
  \/ BrowserStop
  \/ BrowserUpdate
  \/ \E o \in Announced, ttl \in PacketTTLs : BrowserResponse(PacketOf(o, ttl))
  \/ \E i \in 1..Len(browserServices) : TTLTimer(i)
  \/ ClockToDue
  \/ ClockMs

InitBrowser ==
  /\ InitPublisher(0, 0, 0, 0)
  /\ TypeOff
  /\ cfg = [s \in Svc |-> NewService(OptionsOf(s, NoProbe))]
  /\ filter \in Filters
  /\ listening = FALSE
  /\ browserServices = <<>>
  /\ now = 0
  /\ emitted = <<>>
  /\ queried = <<>>
  /\ finder = NoFinder
  /\ received = NoPacket
  /\ responsesLeft = MaxResponses
  /\ browserOpsLeft = MaxBrowserOps
  /\ lateLeft = MaxLateMs

\* A timer that is due fires, and the clock reaches the time a timer waits for
SpecBrowser ==
  /\ InitBrowser
  /\ [][NextBrowser]_vars
  /\ WF_vars(\E i \in 1..Len(browserServices) : TTLTimer(i))
  /\ WF_vars(ClockToDue)

(***************************************************************************)
(* C8: the TTL of a discovered service                                     *)
(***************************************************************************)
\* A known service was last seen more than its TTL ago
Overdue ==
  \E i \in 1..Len(browserServices) :
    now > browserServices[i].lastSeen + browserServices[i].ttl * 1000

\* C8: a TTL timer removes a service only when its TTL has passed since it
\* was seen, and a known service whose TTL has passed does not stay: from
\* some moment on no known service is past its TTL
C8_TTLExpiryRemoves ==
  /\ [][ \A i \in 1..Len(browserServices) :
           (TTLTimer(i) /\ Len(browserServices') < Len(browserServices))
             => now >= browserServices[i].lastSeen + browserServices[i].ttl * 1000 ]_vars
  /\ <>[]~Overdue

(***************************************************************************)
(* C9: the known list and the filter                                       *)
(***************************************************************************)
\* The filter as the claim words it: a filter txt entry is met by an entry
\* of the service's own TXT data with that key and a matching value
HasTxtEntry(e, txt) ==
  /\ txt # NoTxt
  /\ \E j \in 1..Len(txt) :
       /\ txt[j].key = e.key
       /\ e.kind = "string" => txt[j].value = e.s
       /\ e.kind = "regex" => Includes(txt[j].value, e.s)

SatisfiesFilter(s) ==
  \/ filter = NoFilter
  \/ /\ s.protocol = filter.protocol
     /\ s.type = filter.type
     /\ \A i \in 1..Len(filter.subtypes) : filter.subtypes[i] \in Range(s.subtypes)
     /\ filter.name.kind = "string" => ToLowerAscii(s.name) = ToLowerAscii(filter.name.s)
     /\ filter.name.kind = "regex" => Includes(s.name, filter.name.s)
     /\ \A i \in 1..Len(filter.txt) : HasTxtEntry(filter.txt[i], s.txt)

\* C9: every known service satisfies the filter, and so does every service
\* an up event was emitted for
C9_KnownSatisfyFilter ==
  /\ \A i \in 1..Len(browserServices) : SatisfiesFilter(browserServices[i])
  /\ \A k \in 1..Len(emitted) :
       emitted[k].ev = "up" => SatisfiesFilter(emitted[k].service)

(***************************************************************************)
(* C1: unpublishAll() and what it leaves published                         *)
(***************************************************************************)
\* The services unpublishAll() was called for: Head(ioq).running of its
\* goodbye, startedServices when it returns at once
StillPublished(services) ==
  \E i \in 1..Len(services) : svc'[services[i]].published

\* C1: when unpublishAll() completes (its goodbye transmit completes, or it
\* returns at once because no started service is published), every service
\* that was started on the handle when it was called has published = false
C1_UnpublishAllLeavesNonePublished ==
  [][ /\ (UnpublishAll /\ ioq' = ioq) => ~StillPublished(startedServices)
      /\ \A err \in BOOLEAN :
           (GoodbyeCb(err) /\ Head(ioq).caller = "unpublishAll")
             => ~StillPublished(Head(ioq).running) ]_vars

(***************************************************************************)
(* C3: the down events of one publication                                  *)
(***************************************************************************)
\* C3: a publication that stop() was called on gets at most one down event,
\* whatever interleaves with the goodbye transmit
C3_StopEmitsOneDown ==
  \A s \in Svc : stopSeen[s] => downs[s] <= 1

(***************************************************************************)
(* C5: transmits after destroy()                                           *)
(***************************************************************************)
\* The probe queries and announcements handed to the transport
Transmits(q) == Cardinality({i \in 1..Len(q) : q[i].kind \in {"queryCb", "announceCb"}})

\* C5: once destroy() has been called, no step hands a probe query or an
\* announcement to the transport
C5_NoTransmitAfterDestroy ==
  [][ destroyCalled => Transmits(ioq') <= Transmits(ioq) ]_vars

(***************************************************************************)
(* C7: the announce callback and transport errors                          *)
(***************************************************************************)
\* C7: an announcement transmit whose callback reports a transport error
\* leaves published as it was (and so emits no up)
C7_FailedAnnounceDoesNotPublish ==
  [][ AnnounceCb(TRUE) => \A s \in Svc : svc'[s].published = svc[s].published ]_vars

RECURSIVE Pow(_, _)
Pow(b, e) == IF e = 0 THEN 1 ELSE b * Pow(b, e - 1)

\* C6, as the specification states it: the timer armed after the n-th
\* announcement waits 1000 * 3^(n-1) ms (1000 after the first)
C6_DelaysStartAt1000 ==
  \A c \in 1..Len(calls) :
    calls[c].ann = "timer" => calls[c].delay = InitialDelay * Pow(3, calls[c].tx - 1)

\* C6: the timer armed after the n-th announcement waits 1000 * 3^n ms
\* (3000 after the first), and no timer is armed for an hour or more
C6_DelaysStartAt3000 ==
  \A c \in 1..Len(calls) :
    calls[c].ann = "timer" =>
      /\ calls[c].tx >= 1
      /\ calls[c].delay = InitialDelay * Pow(3, calls[c].tx)
      /\ calls[c].delay < REANNOUNCE_MAX_MS

\* The timers after the first and after the seventh announcement are armed
C6_Witness ==
  /\ \E c \in 1..Len(calls) : calls[c].ann = "timer" /\ calls[c].tx = 1
  /\ \E c \in 1..Len(calls) : calls[c].ann = "timer" /\ calls[c].tx = 7

(***************************************************************************)
(* C10: the goodbye                                                        *)
(***************************************************************************)
GoodbyeItems(q) == SelectSeq(q, LAMBDA x : x.kind = "goodbyeCb")

\* The goodbyes a step hands to the transport: sends are appended, and no
\* step both completes a goodbye and issues one
NewGoodbyes ==
  LET old == Len(GoodbyeItems(ioq))
      new == GoodbyeItems(ioq')
  IN IF Len(new) > old THEN {new[i] : i \in (old + 1)..Len(new)} ELSE {}

\* C10: a goodbye is issued only for services published at that moment, as
\* one transmit that holds every record of each of them with ttl 0, after
\* the table has lost every record of that type and name; when the transmit
\* completes the services have published = false
C10_Goodbye ==
  [][ /\ \A g \in NewGoodbyes :
           /\ g.svcs # <<>>
           /\ \A i \in 1..Len(g.svcs) :
                /\ svc[g.svcs[i]].published
                /\ LET recs == getRecords(cfg[g.svcs[i]], svc'[g.svcs[i]])
                   IN \A j \in 1..Len(recs) :
                        \E k \in 1..Len(g.recs) : g.recs[k] = [recs[j] EXCEPT !.ttl = 0]
           /\ \A k \in 1..Len(g.recs) :
                /\ g.recs[k].ttl = 0
                /\ \A e \in 1..Len(table') : \A j \in 1..Len(table'[e].recs) :
                     ~(/\ table'[e].recs[j].type = g.recs[k].type
                       /\ table'[e].recs[j].name = g.recs[k].name)
      /\ \A err \in BOOLEAN :
           GoodbyeCb(err) =>
             \A i \in 1..Len(Head(ioq).svcs) : ~svc'[Head(ioq).svcs[i]].published ]_vars

\* A goodbye has completed for a service announced before
C10_Witness ==
  \E s \in Svc : downs[s] = 1 /\ ~svc[s].published /\ svc[s].started

(***************************************************************************)
(* C4: a name conflict resolved by renaming                                *)
(***************************************************************************)
\* Handlers that are due run: the reactor starves no callback and no timer
Internal ==
  \/ \E err \in BOOLEAN : QueryCb(err)
  \/ RecvQuery
  \/ \E err \in BOOLEAN : RespondedCb(err)
  \/ \E err \in BOOLEAN : AnnounceCb(err)
  \/ \E err \in BOOLEAN : GoodbyeCb(err)
  \/ RecvResponse
  \/ \E r \in 1..Len(rounds) : ProbeSendTick(r)
  \/ \E r \in 1..Len(rounds) : ProbeDoneTick(r)
  \/ \E c \in 1..Len(calls) : BroadcastTick(c)

\* Two calls, on a transport whose sends may fail once
InitAuto == InitWith(AutoOps, AutoErrors, 0, MaxAnnounce)

\* No handler is due: the transport is empty and no timer that a run
\* follows is armed
Idle ==
  /\ ioq = <<>>
  /\ \A r \in 1..Len(rounds) : rounds[r].phase \notin {"wait", "timerSend", "timerDone"}
  /\ \A c \in 1..Len(calls) : ~(calls[c].ann = "timer" /\ calls[c].tx < txLimit)

\* Weak fairness of Internal, with Idle for ~ENABLED <<Internal>>_vars
SpecAuto == InitAuto /\ [][Next]_vars /\ ([]<>Idle \/ []<><<Internal>>_vars)

\* Two calls were made, both start(): the second for a service that probes
\* and renames, made when the first service was published; no send failed
AutoResolveCase ==
  /\ opsLeft = AutoOps - 2
  /\ errsLeft = AutoErrors
  /\ Len(calls) = 2
  /\ calls[1].svc # calls[2].svc
  /\ calls[2].others = {calls[1].svc}
  /\ cfg[calls[2].svc].probe
  /\ cfg[calls[2].svc].probeAutoResolve

\* The second service is published as "<name> (2)": the first round saw the
\* conflict, the second saw none
SecondPublishedRenamed ==
  /\ Len(calls) = 2
  /\ svc[calls[2].svc].published
  /\ svc[calls[2].svc].name = cfg[calls[2].svc].name0 \o <<" ", "(", "2", ")">>
  /\ calls[2].promise = "up"

AbortedProbe(c) ==
  /\ calls[c].stage = "probing"
  /\ Inactive(Prog, calls[c].svc)
  /\ ~svc'[calls[c].svc].started \/ svc'[calls[c].svc].destroyed

\* The probe queries of call c that the transport holds
ProbeQueries(q, c) ==
  Cardinality({i \in 1..Len(q) : q[i].kind = "queryCb" /\ rounds[q[i].round].call = c})

\* C11: while a probing service is stopped or destroyed no step sends a
\* probe query for that start, registers its records or announces it (and
\* so none emits up for it)
C11_AbortedProbeIsSilent ==
  [][ \A c \in 1..Len(calls) :
        AbortedProbe(c) =>
          /\ calls'[c].stage # "announcing"
          /\ calls'[c].records = <<>>
          /\ calls'[c].tx = 0
          /\ ProbeQueries(ioq', c) <= ProbeQueries(ioq, c) ]_vars

(***************************************************************************)
(* C12: a conflict without auto-resolve                                    *)
(***************************************************************************)
\* The step in which the start() of call c, for a service that probes once,
\* learns of a conflict
ConflictStops(c) ==
  /\ cfg[calls[c].svc].probe
  /\ ~cfg[calls[c].svc].probeAutoResolve
  /\ calls[c].promise = "pending"
  /\ calls'[c].promise = "conflict"

\* C12: a conflict seen by a service with probe and without probeAutoResolve
\* leaves it stopped, unpublished, out of startedServices and under its
\* name, and that start has registered and announced nothing
C12_ConflictStopsService ==
  [][ \A c \in 1..Len(calls) :
        ConflictStops(c) =>
          LET s == calls[c].svc
          IN /\ ~svc'[s].started
             /\ ~svc'[s].published
             /\ IndexOf(startedServices', s) = 0
             /\ svc'[s].name = cfg[s].name0
             /\ svc'[s].fqdn = MakeFqdn(cfg[s].name0, cfg[s].type)
             /\ calls'[c].records = <<>>
             /\ calls'[c].tx = 0
             /\ calls'[c].stage = "returned" ]_vars

(***************************************************************************)
(* C13: the probe rounds of a start with probeAutoResolve                  *)
(***************************************************************************)
\* Calls enough to start a service, stop it and start it again, on a link
\* where another host answers
InitRestart == InitWith(RestartOps, 0, RestartPeer, MaxAnnounce)

SpecRestart == InitRestart /\ [][NextPeer]_vars

\* The rounds of call c, and the place of round r among the rounds of its call
RoundsOf(c) == {r \in 1..Len(rounds) : rounds[r].call = c}

RoundNumber(r) == Cardinality({q \in RoundsOf(rounds[r].call) : q <= r})

\* The name round k of call c is to probe
NameOfRound(c, k) ==
  IF k = 1 THEN calls[c].originalName ELSE Renamed(calls[c].originalName, k)

AutoCall(c) == cfg[calls[c].svc].probe /\ cfg[calls[c].svc].probeAutoResolve

\* C13: a start with probeAutoResolve makes at most 10 probe rounds, round k
\* asks for "<original> (k)" (the original name for k = 1); after 10
\* conflicts the service is stopped and that start announces nothing; a
\* start that announces does so under the name of its last round
C13_AutoResolveRounds ==
  /\ [](\A c \in 1..Len(calls) :
          AutoCall(c) =>
            /\ Cardinality(RoundsOf(c)) <= MAX_PROBE_AUTO_RESOLVE_ATTEMPTS
            /\ calls[c].stage = "announcing" =>
                 /\ calls[c].attempt = Cardinality(RoundsOf(c))
                 /\ \E i \in 1..Len(calls[c].records) :
                      /\ calls[c].records[i].type = "SRV"
                      /\ calls[c].records[i].name
                           = NameOfRound(c, calls[c].attempt) \o calls[c].fqdnSuffix
            /\ calls[c].promise = "conflict" =>
                 /\ Cardinality(RoundsOf(c)) = MAX_PROBE_AUTO_RESOLVE_ATTEMPTS
                 /\ calls[c].stage = "returned"
                 /\ calls[c].records = <<>>
                 /\ calls[c].tx = 0)
  /\ [](\A i \in 1..Len(ioq) :
          (ioq[i].kind = "queryCb" /\ AutoCall(rounds[ioq[i].round].call)) =>
            ioq[i].name = NameOfRound(rounds[ioq[i].round].call, RoundNumber(ioq[i].round))
                            \o calls[rounds[ioq[i].round].call].fqdnSuffix)
  /\ [][\A c \in 1..Len(calls) :
          (AutoCall(c) /\ calls[c].promise = "pending" /\ calls'[c].promise = "conflict")
            => ~svc'[calls[c].svc].started]_vars

(***************************************************************************)
(* C14: the three queries of a probe round                                 *)
(***************************************************************************)
\* The queries of round r whose callback has not run yet
Outstanding(q, r) ==
  Cardinality({i \in 1..Len(q) : q[i].kind = "queryCb" /\ q[i].round = r})

\* Every round has reached its end: it is resolved, or it was aborted
\* because its service is stopped or destroyed
Settled ==
  \A r \in 1..Len(rounds) :
    \/ rounds[r].resolved
    \/ rounds[r].phase = "dead"
    \/ Inactive(Prog, rounds[r].svc)

\* C14: a probe round sends at most three queries, of type ANY and for the
\* service's fqdn, each after the callback of the one before; it ends
\* without conflict only by the timer of the third query, and then its start
\* goes on to announce; a query whose send fails counts like any other and
\* the round goes on; and every round that is not aborted does end
C14_ThreeQueries ==
  /\ [](\A r \in 1..Len(rounds) :
          /\ rounds[r].retries + Outstanding(ioq, r) <= ProbeRetries
          /\ Outstanding(ioq, r) <= 1)
  /\ [](\A i \in 1..Len(ioq) : ioq[i].kind = "query" => ioq[i].qtype = "ANY")
  /\ [][\A r \in 1..Len(rounds) :
          /\ Outstanding(ioq', r) > Outstanding(ioq, r) =>
               /\ Outstanding(ioq, r) = 0
               /\ ioq'[Len(ioq')].name = svc[rounds[r].svc].fqdn
          /\ ProbeDoneTick(r) =>
               /\ rounds[r].retries = ProbeRetries
               /\ rounds[r].sent
               /\ ~rounds[r].resolved =>
                    /\ rounds'[r].resolved
                    /\ calls'[rounds[r].call].stage = "announcing"
          /\ (~rounds[r].resolved /\ rounds'[r].resolved /\ ~ProbeDoneTick(r)) =>
               /\ HeadIs("response")
               /\ calls'[rounds[r].call].stage # "announcing"]_vars
  /\ [][QueryCb(TRUE) =>
          LET r == Head(ioq).round
          IN /\ rounds'[r].sent
             /\ rounds'[r].retries = rounds[r].retries + 1
             /\ rounds'[r].phase \in {"timerSend", "timerDone"}
             /\ rounds'[r].resolved = rounds[r].resolved]_vars
  /\ []<>Settled

\* One start, one round: a query failed to send, the round ended without
\* conflict after three queries and the first announcement is on its way
C14_Witness ==
  /\ Len(calls) = 1
  /\ Len(rounds) = 1
  /\ rounds[1].resolved
  /\ rounds[1].retries = ProbeRetries
  /\ errsLeft = AutoErrors - 1
  /\ calls[1].stage = "announcing"
  /\ calls[1].tx = 1
  /\ Len(ioq) = 1
  /\ ioq[1].kind = "announceCb"

(***************************************************************************)
(* DNSSD.findOne: a browser of its own, a timeout and a once('up')         *)
(* listener that stops the browser and resolves the promise                *)
(***************************************************************************)
\* The state a handler of findOne's browser reads and writes
FProg ==
  [services |-> browserServices, emitted |-> <<>>, listening |-> listening, finder |-> finder]

\* Browser.stop
stop(F) == IF ~F.listening THEN F ELSE [F EXCEPT !.listening = FALSE, !.services = <<>>]

\* resolve(value) of findOne's promise: the first call settles it
resolve(F, state, value) ==
  [F EXCEPT !.finder.resolves = F.finder.resolves + 1,
            !.finder.state = IF F.finder.state = "pending" THEN state ELSE F.finder.state,
            !.finder.result = IF F.finder.state = "pending" THEN value ELSE F.finder.result]

\* The listener of browser.once('up', ...), called by emit('up', service)
onUp(F, service) ==
  IF ~F.finder.listens THEN F
  ELSE resolve(stop([F EXCEPT !.finder.listens = FALSE, !.finder.timer = FALSE]),
               "found", service)

\* The second loop of onresponse, the listener called where 'up' is emitted
RECURSIVE FindDiscover(_, _, _)
FindDiscover(F, found, t) ==
  IF found = <<>> THEN F
  ELSE LET service == Head(found)
           B == [services |-> F.services, emitted |-> F.emitted]
           C == IF Known(B.services, service.fqdn) THEN updateService(B, service, t)
                ELSE addService(B, service, t)
           G == [F EXCEPT !.services = C.services, !.emitted = C.emitted]
           up == /\ Len(C.emitted) > Len(B.emitted)
                 /\ C.emitted[Len(C.emitted)].ev = "up"
       IN FindDiscover(IF up THEN onUp(G, C.emitted[Len(C.emitted)].service) ELSE G,
                       Tail(found), t)

FCommit(F) ==
  /\ browserServices' = F.services
  /\ emitted' = F.emitted
  /\ listening' = F.listening
  /\ finder' = F.finder

\* DNSSD.findOne(options, timeoutMs) up to its return
FindOne ==
  /\ finder.state = "none"
  /\ ~listening
  /\ listening' = TRUE
  /\ queried' = queryNames
  /\ emitted' = <<>>
  /\ finder' = [state |-> "pending", timer |-> TRUE, listens |-> TRUE, resolves |-> 0,
                result |-> NoService]
  /\ UNCHANGED received
  /\ UNCHANGED <<filter, browserServices, now, responsesLeft, browserOpsLeft, lateLeft>>
  /\ UNCHANGED <<pvars, tvars>>

\* The 'response' event, for the browser of findOne
FindResponse(packet) ==
  /\ finder.state # "none"
  /\ listening
  /\ responsesLeft > 0
  /\ responsesLeft' = responsesLeft - 1
  /\ LET B == RemoveGone(BProg, packet.answers \o packet.additionals)
         F == [FProg EXCEPT !.services = B.services, !.emitted = B.emitted]
         found == fromResponse(packet, now)
     IN /\ FCommit(IF Threw(found) THEN F ELSE FindDiscover(F, found, now))
        /\ received' = Handled(packet, Threw(found))
  /\ UNCHANGED <<filter, now, queried, browserOpsLeft, lateLeft>>
  /\ UNCHANGED <<pvars, tvars>>

\* The callback of findOne's timeout timer
FindTimeout ==
  /\ finder.timer
  /\ FCommit(resolve(stop([FProg EXCEPT !.finder.timer = FALSE]), "timeout", NoService))
  /\ UNCHANGED received
  /\ UNCHANGED <<filter, now, queried, responsesLeft, browserOpsLeft, lateLeft>>
  /\ UNCHANGED <<pvars, tvars>>

\* One response that carries two services, as a responder answers a PTR
\* question for a type under which two services are registered
PairPacketOf(o1, o2, ttl) ==
  [kind |-> "response",
   answers |-> PacketOf(o1, ttl).answers \o PacketOf(o2, ttl).answers,
   additionals |-> <<>>]

FindPackets ==
  {PacketOf(o, ttl) : o \in Announced, ttl \in PacketTTLs}
    \cup {PairPacketOf(p[1], p[2], ttl) :
            p \in {q \in Announced \X Announced : q[1] # q[2]}, ttl \in PacketTTLs}

NextFind ==
  \/ FindOne
  \/ \E packet \in FindPackets : FindResponse(packet)
  \/ FindTimeout
  \/ \E i \in 1..Len(browserServices) : TTLTimer(i)
  \/ ClockToDue
  \/ ClockMs

SpecFind == InitBrowser /\ [][NextFind]_vars

\* C15: the promise of findOne is resolved by one call, with the first
\* service its browser emitted up for or with null at the timeout; once it
\* is resolved the browser does not listen, no timer of the browser or of
\* findOne is armed, and nothing changes the outcome
C15_FindOneOnceAndStopped ==
  /\ [](finder.resolves <= 1)
  /\ [](finder.state \in {"found", "timeout"} =>
          /\ finder.resolves = 1
          /\ ~listening
          /\ ~finder.timer
          /\ \A i \in 1..Len(browserServices) : browserServices[i].timer # "armed"
          /\ finder.state = "found" <=> finder.result # NoService)
  /\ [][finder.state \in {"found", "timeout"} =>
          finder'.state = finder.state /\ finder'.result = finder.result]_vars

(***************************************************************************)
(* The Responder alone: register, unregister and inbound queries           *)
(***************************************************************************)
\* new Service(options) where options.host is given
ServiceAt(o, host) == [NewService(o) EXCEPT !.host = host]

\* getRecords() of a new service made with these options
RecordsFor(name, sub, port, host) ==
  LET c == ServiceAt([protocol |-> <<"t", "c", "p">>, type |-> <<"t">>, subtypes |-> sub,
                      name |-> name, port |-> port, txt |-> <<>>,
                      probe |-> FALSE, probeAutoResolve |-> TRUE], host)
  IN getRecords(c, [name |-> c.name0, fqdn |-> MakeFqdn(c.name0, c.type)])

\* The record lists handed to register and unregister: the records of a
\* service, of one whose name differs in case only, of one with the same
\* name and other data, of one with a subtype on another host, one record
\* alone, and one record twice
RecordLists ==
  { RecordsFor(<<"a">>, <<>>, 3001, <<"h">>),
    RecordsFor(<<"A">>, <<>>, 3001, <<"h">>),
    RecordsFor(<<"a">>, <<>>, 3002, <<"H">>),
    RecordsFor(<<"b">>, << <<"x">> >>, 3003, <<"g">>),
    <<RecordsFor(<<"a">>, <<>>, 3001, <<"h">>)[2]>>,
    <<RecordsFor(<<"b">>, <<>>, 3003, <<"g">>)[3], RecordsFor(<<"b">>, <<>>, 3003, <<"g">>)[3]>> }

RecordTypes == {"PTR", "SRV", "TXT", "A", "AAAA"}

\* The questions of inbound queries
Questions ==
  { [type |-> "PTR", name |-> <<"_", "t", ".", "_", "t", "c", "p">> \o TLD],
    [type |-> "PTR", name |-> <<"_", "x", ".", "_", "s", "u", "b", ".", "_", "t", ".",
                                "_", "t", "c", "p">> \o TLD],
    [type |-> "ANY", name |-> <<"a", ".", "_", "t", ".", "_", "t", "c", "p">> \o TLD],
    [type |-> "SRV", name |-> <<"A", ".", "_", "T", ".", "_", "t", "c", "p">> \o TLD],
    [type |-> "SRV", name |-> <<"B">>],
    [type |-> "A", name |-> <<"h">>],
    [type |-> "TXT", name |-> <<"z">> \o TLD],
    [type |-> "NS", name |-> <<"a", ".", "_", "t", ".", "_", "t", "c", "p">> \o TLD] }

\* The query packets: one question, or two
QueryPackets ==
  {<<q>> : q \in Questions}
    \cup {<<q[1], q[2]>> : q \in {p \in Questions \X Questions :
                                     /\ p[1].type \in {"PTR", "ANY", "NS"}
                                     /\ p[2].type \in {"PTR", "ANY", "NS"}}}

\* MDNSServer.respond(query): the loop over the questions of the packet
RECURSIVE respond(_, _)
respond(P, questions) ==
  IF questions = <<>> THEN P
  ELSE LET question == Head(questions)
           answers == AnswersOf(P.table, question.type, question.name)
           additionals == AdditionalsOf(P.table, question.type, answers)
       IN respond(IF Len(answers) = 0 THEN P
                  ELSE Send(P, [kind |-> "respondedCb", answers |-> answers,
                                additionals |-> additionals]),
                  Tail(questions))

Register(R) ==
  /\ opsLeft > 0
  /\ opsLeft' = opsLeft - 1
  /\ table' = register(table, R)
  /\ UNCHANGED <<cfg, lastMake, svc, startedServices, calls, rounds, ioq, downs, stopSeen, lastNoop, lastGoodbye,
                 destroyCalled, errsLeft, peerLeft, txLimit>>
  /\ UNCHANGED <<bvars, tvars>>

Unregister(R) ==
  /\ opsLeft > 0
  /\ opsLeft' = opsLeft - 1
  /\ table' = unregister(table, R)
  /\ UNCHANGED <<cfg, lastMake, svc, startedServices, calls, rounds, ioq, downs, stopSeen, lastNoop, lastGoodbye,
                 destroyCalled, errsLeft, peerLeft, txLimit>>
  /\ UNCHANGED <<bvars, tvars>>

\* The 'query' event for a packet of another host
InboundQuery(questions) ==
  /\ opsLeft > 0
  /\ opsLeft' = opsLeft - 1
  /\ Commit(respond(Prog, questions))
  /\ UNCHANGED <<cfg, lastMake, lastNoop, lastGoodbye, destroyCalled, errsLeft, peerLeft, txLimit>>
  /\ UNCHANGED <<bvars, tvars>>

NextResponder ==
  \/ \E R \in RecordLists : Register(R)
  \/ \E R \in RecordLists : Unregister(R)
  \/ \E questions \in QueryPackets : InboundQuery(questions)
  \/ \E err \in BOOLEAN : RespondedCb(err)
  \/ RecvResponse

\* No service is started; the Responder is driven directly
InitResponder ==
  /\ InitWith(ResponderOps, ResponderErrors, 0, 0)
  /\ cfg = [s \in Svc |-> NewService(OptionsOf(s, NoProbe))]

SpecResponder == InitResponder /\ [][NextResponder]_vars

\* C16: unregister(R) removes from the bucket of each type in R exactly the
\* records whose name equals, whatever the case of its ASCII letters, the
\* name of a record of R of that type, and leaves no bucket empty
C16_UnregisterByNameAnyCase ==
  [][\A R \in RecordLists : Unregister(R) =>
       /\ \A type \in RecordTypes :
            TableGet(table', type) =
              SelectSeq(TableGet(table, type),
                        LAMBDA r : ~\E i \in 1..Len(R) :
                                      R[i].type = type /\ nameEquals(R[i].name, r.name))
       /\ \A i \in 1..Len(table') : table'[i].recs # <<>>]_vars

\* C17: the table never holds two records with equal type, name and data;
\* register(R) leaves a table that holds each record of R once and that a
\* second register(R) would not change
C17_NoDuplicateRecords ==
  /\ [](\A i, j \in 1..Len(AllRecords(table)) :
          i # j => ~(/\ AllRecords(table)[i].type = AllRecords(table)[j].type
                     /\ AllRecords(table)[i].name = AllRecords(table)[j].name
                     /\ AllRecords(table)[i].data = AllRecords(table)[j].data))
  /\ [][\A R \in RecordLists : Register(R) =>
          /\ register(table', R) = table'
          /\ \A k \in 1..Len(R) :
               Cardinality({i \in 1..Len(AllRecords(table')) :
                              /\ AllRecords(table')[i].type = R[k].type
                              /\ AllRecords(table')[i].name = R[k].name
                              /\ AllRecords(table')[i].data = R[k].data}) = 1]_vars

\* Three services were registered, two of them with most of their records
\* equal to records of the first
C17_Witness ==
  /\ opsLeft = 0
  /\ Len(TableGet(table, "SRV")) = 3
  /\ Len(TableGet(table, "PTR")) = 3

\* The first label of a name: what precedes its first dot
FirstLabel(n) ==
  IF \E i \in 1..Len(n) : n[i] = "."
    THEN SubSeq(n, 1, (CHOOSE i \in 1..Len(n) : n[i] = "." /\ \A j \in 1..(i - 1) : n[j] # ".") - 1)
    ELSE n

\* A record answers a question: its type is the question's (any type for
\* ANY) and its name loosely equals the question's
Answers(record, question) ==
  /\ question.type \in {"ANY", record.type}
  /\ IF \E i \in 1..Len(question.name) : question.name[i] = "."
       THEN ToLowerAscii(record.name) = ToLowerAscii(question.name)
       ELSE ToLowerAscii(FirstLabel(record.name)) = ToLowerAscii(question.name)

\* Some record of the table answers the question
Matched(tbl, question) ==
  LET all == AllRecords(tbl)
  IN \E i \in 1..Len(all) : Answers(all[i], question)

\* C18: an inbound query adds one response per question that a record of the
\* table answers, in the order of the questions, and nothing else; the
\* answers of each response are records of the table that answer its question
C18_OneResponsePerMatchedQuestion ==
  [][\A questions \in QueryPackets :
       (table' = table /\ Len(ioq') >= Len(ioq) /\ InboundQuery(questions)) =>
         LET all == AllRecords(table)
             hit == {k \in 1..Len(questions) : Matched(table, questions[k])}
         IN /\ Len(ioq') = Len(ioq) + Cardinality(hit)
            /\ SubSeq(ioq', 1, Len(ioq)) = ioq
            /\ \A k \in hit :
                 LET sent == ioq'[Len(ioq) + Cardinality({j \in hit : j <= k})]
                 IN /\ sent.kind = "respondedCb"
                    /\ sent.answers # <<>>
                    /\ \A a \in 1..Len(sent.answers) :
                         /\ \E i \in 1..Len(all) : all[i] = sent.answers[a]
                         /\ Answers(sent.answers[a], questions[k])]_vars

\* One query with two questions was answered with two different responses
C18_Witness ==
  /\ opsLeft = ResponderOps - 2
  /\ Len(ioq) = 2
  /\ ioq[1].kind = "respondedCb"
  /\ ioq[2].kind = "respondedCb"
  /\ ioq[1].answers # ioq[2].answers

\* The records of a type in the table that are named like a name, in the
\* order the table holds them
NamedLike(tbl, type, name) ==
  SelectSeq(TableGet(tbl, type), LAMBDA r : Answers(r, [type |-> type, name |-> name]))

\* The SRV and TXT records named like the targets of the PTR answers
ServiceAdditionals(tbl, answers) ==
  LET ptrs == SelectSeq(answers, LAMBDA a : a.type = "PTR")
  IN Flatten([i \in 1..Len(ptrs) |->
               NamedLike(tbl, "SRV", ptrs[i].data) \o NamedLike(tbl, "TXT", ptrs[i].data)])

\* The targets of the SRV records of a list, each once, in the order of
\* their first occurrence
DistinctTargets(recs) ==
  LET srvs == SelectSeq(recs, LAMBDA r : r.type = "SRV")
      marked == [i \in 1..Len(srvs) |->
                   [target |-> srvs[i].data.target,
                    first |-> \A j \in 1..(i - 1) : srvs[j].data.target # srvs[i].data.target]]
      firsts == SelectSeq(marked, LAMBDA m : m.first)
  IN [i \in 1..Len(firsts) |-> firsts[i].target]

\* The A and AAAA records named like the targets
AddressAdditionals(tbl, targets) ==
  Flatten([i \in 1..Len(targets) |->
            NamedLike(tbl, "A", targets[i]) \o NamedLike(tbl, "AAAA", targets[i])])

\* C19: the additionals of the response to a question that is not ANY are
\* the SRV and TXT records named like the target of each PTR answer, then
\* the A and AAAA records named like each distinct target of those SRV
\* records; the response to an ANY question has no additionals
C19_Additionals ==
  [][\A questions \in QueryPackets :
       (table' = table /\ Len(ioq') >= Len(ioq) /\ InboundQuery(questions)) =>
         LET hit == {k \in 1..Len(questions) : Matched(table, questions[k])}
         IN \A k \in hit :
              LET sent == ioq'[Len(ioq) + Cardinality({j \in hit : j <= k})]
                  first == ServiceAdditionals(table, sent.answers)
              IN sent.additionals =
                   IF questions[k].type = "ANY" THEN <<>>
                   ELSE first \o AddressAdditionals(table, DistinctTargets(first))]_vars

\* A response carries two SRV records with one target among its additionals
\* and the A record of that target once
C19_Witness ==
  \E i \in 1..Len(ioq) :
    /\ ioq[i].kind = "respondedCb"
    /\ \E a, b \in 1..Len(ioq[i].additionals) :
         /\ a # b
         /\ ioq[i].additionals[a].type = "SRV"
         /\ ioq[i].additionals[b].type = "SRV"
         /\ ioq[i].additionals[a] # ioq[i].additionals[b]
         /\ ioq[i].additionals[a].data.target = ioq[i].additionals[b].data.target
    /\ Cardinality({a \in 1..Len(ioq[i].additionals) : ioq[i].additionals[a].type = "A"}) = 1

(***************************************************************************)
(* C20: stop() before the service is published                             *)
(***************************************************************************)
\* C20: stop() of a service that is started and not published changes
\* nothing but started, which becomes false, and startedServices, which the
\* service leaves: no goodbye is sent, no down is emitted, the table and
\* the pending starts and probes are as they were
C20_StopBeforePublished ==
  [][\A s \in Svc :
       (svc[s].started /\ ~svc[s].published /\ Stop(s)) =>
         /\ svc' = [svc EXCEPT ![s].started = FALSE]
         /\ IndexOf(startedServices', s) = 0
         /\ startedServices' = SelectSeq(startedServices, LAMBDA x : x # s)
         /\ table' = table
         /\ ioq' = ioq
         /\ downs' = downs
         /\ calls' = calls
         /\ rounds' = rounds]_vars

\* A service was stopped while its start was probing, or while its first
\* announcement was being sent
C20_Witness ==
  \E c \in 1..Len(calls) :
    /\ ~svc[calls[c].svc].started
    /\ ~svc[calls[c].svc].published
    /\ ~svc[calls[c].svc].destroyed
    /\ stopSeen[calls[c].svc] = FALSE
    /\ IndexOf(startedServices, calls[c].svc) = 0
    /\ \/ calls[c].stage = "probing"
       \/ calls[c].stage = "announcing" /\ calls[c].tx = 1 /\ HeadIs("announceCb")

(***************************************************************************)
(* C21: a goodbye whose send fails                                         *)
(***************************************************************************)
\* C21: when the send of a goodbye reports an error, the promise of the
\* stop() or unpublishAll() that sent it rejects, and the .finally has run:
\* stop() has taken one entry of the service out of startedServices, the
\* other services keeping their places, so that a service listed once is
\* listed no more, and unpublishAll() has left startedServices empty; a send
\* without error resolves the promise
C21_GoodbyeErrorRejects ==
  [][\A err \in BOOLEAN :
       GoodbyeCb(err) =>
         /\ lastGoodbye'.rejected = err
         /\ lastGoodbye'.caller = Head(ioq).caller
         /\ Head(ioq).caller = "unpublishAll" => startedServices' = <<>>
         /\ Head(ioq).caller = "stop" =>
              /\ Cardinality({i \in 1..Len(startedServices') :
                                startedServices'[i] = Head(ioq).svc})
                   = Cardinality({i \in 1..Len(startedServices) :
                                    startedServices[i] = Head(ioq).svc} \ {IndexOf(startedServices, Head(ioq).svc)})
              /\ SelectSeq(startedServices', LAMBDA x : x # Head(ioq).svc)
                   = SelectSeq(startedServices, LAMBDA x : x # Head(ioq).svc)
              /\ Cardinality({i \in 1..Len(startedServices) :
                                startedServices[i] = Head(ioq).svc}) <= 1
                   => IndexOf(startedServices', Head(ioq).svc) = 0]_vars

\* The goodbye of a stop() failed: its promise is rejected and the service
\* is out of startedServices
C21_Witness ==
  /\ lastGoodbye.rejected
  /\ lastGoodbye.caller = "stop"
  /\ IndexOf(startedServices, lastGoodbye.svc) = 0
  /\ ~svc[lastGoodbye.svc].published

(***************************************************************************)
(* C22: the end of the re-announcements                                    *)
(***************************************************************************)
\* SpecChain with the handlers and timers weakly fair
SpecChainFair == InitChain /\ [][Next]_vars /\ ([]<>Idle \/ []<><<Internal>>_vars)

\* C22: a re-announce timer that is armed waits less than an hour; no step
\* arms one for a destroyed service; the n-th announcement of a start was
\* made by a timer of less than an hour, so there are finitely many; and in
\* the end no start has an announcement in flight or a timer armed
C22_ReannouncementsEnd ==
  /\ [](\A c \in 1..Len(calls) :
          /\ calls[c].ann = "timer" => calls[c].delay < REANNOUNCE_MAX_MS
          /\ calls[c].tx >= 2 =>
               InitialDelay * Pow(REANNOUNCE_FACTOR, calls[c].tx - 1) < REANNOUNCE_MAX_MS)
  /\ [][\A c \in 1..Len(calls) :
          (calls[c].ann # "timer" /\ calls'[c].ann = "timer") =>
            ~svc'[calls[c].svc].destroyed]_vars
  /\ <>[](\A c \in 1..Len(calls) : calls[c].ann \notin {"tx", "timer"})

\* A service that was started and never stopped has made its eighth
\* announcement, and no timer is armed for a ninth
C22_Witness ==
  \E c \in 1..Len(calls) :
    /\ calls[c].tx = 8
    /\ calls[c].ann = "off"
    /\ svc[calls[c].svc].started
    /\ ~svc[calls[c].svc].destroyed
    /\ ~stopSeen[calls[c].svc]
    /\ Len(calls) = 1

(***************************************************************************)
(* C23: Browser.stop() and a start() after it                              *)
(***************************************************************************)
\* The browser with one more call and one response
InitRelisten ==
  /\ InitPublisher(0, 0, 0, 0)
  /\ TypeOff
  /\ cfg = [s \in Svc |-> NewService(OptionsOf(s, NoProbe))]
  /\ filter \in Filters
  /\ listening = FALSE
  /\ browserServices = <<>>
  /\ now = 0
  /\ emitted = <<>>
  /\ queried = <<>>
  /\ finder = NoFinder
  /\ received = NoPacket
  /\ responsesLeft = RelistenResponses
  /\ browserOpsLeft = RelistenOps
  /\ lateLeft = RelistenLateMs

SpecRelisten == InitRelisten /\ [][NextBrowser]_vars

\* C23: stop() of a listening browser takes its listener off and leaves no
\* known service, and so no TTL timer; it emits nothing and sends nothing.
\* stop() of a browser that does not listen changes nothing.  start() of a
\* browser that does not listen puts its one listener on and sends the
\* queries, and leaves the known list as it is
C23_StopDetachesAndClears ==
  /\ [][BrowserStop =>
          /\ ~listening'
          /\ emitted' = <<>>
          /\ queried' = queried
          /\ IF listening THEN browserServices' = <<>>
             ELSE browserServices' = browserServices]_vars
  /\ [][BrowserStart =>
          /\ listening'
          /\ emitted' = <<>>
          /\ browserServices' = browserServices
          /\ queried' = IF listening THEN queried ELSE queryNames]_vars
  /\ [](~listening => \A i \in 1..Len(browserServices) : browserServices[i].timer # "armed")

\* The browser listens again after start(), a response, stop() and start()
C23_Witness ==
  /\ listening
  /\ browserOpsLeft = 0
  /\ responsesLeft = 0
  /\ browserServices = <<>>
  /\ queried = queryNames

(***************************************************************************)
(* C24: destroy()                                                          *)
(***************************************************************************)
\* C24: destroy() sets the destroyed flag of the services in startedServices
\* and changes nothing else: no other field of a service, not
\* startedServices, not the table; it hands nothing to the transport and
\* emits nothing.  No step resets a destroyed flag
C24_DestroyOnlyMarks ==
  /\ [][Destroy =>
          /\ svc' = [s \in Svc |->
                       IF \E i \in 1..Len(startedServices) : startedServices[i] = s
                         THEN [svc[s] EXCEPT !.destroyed = TRUE]
                         ELSE svc[s]]
          /\ startedServices' = startedServices
          /\ table' = table
          /\ ioq' = ioq
          /\ downs' = downs
          /\ calls' = calls
          /\ rounds' = rounds]_vars
  /\ [][\A s \in Svc : svc[s].destroyed => svc'[s].destroyed]_vars

\* destroy() was called with a published service in startedServices, which
\* is still started, published and listed
C24_Witness ==
  /\ destroyCalled
  /\ \E s \in Svc :
       /\ svc[s].destroyed /\ svc[s].started /\ svc[s].published
       /\ \E i \in 1..Len(startedServices) : startedServices[i] = s
       /\ \E i \in 1..Len(AllRecords(table)) : AllRecords(table)[i].name = svc[s].fqdn

(***************************************************************************)
(* new Service(options) and Registry.publish(options) with any port        *)
(***************************************************************************)
PublishOps == 3
PublishErrors == 0
PublishAnnounce == 2

\* The ports the options of a run may carry
Ports == {-1, 0, 1, 3000, 65535, 65536, 70000}

\* The constructor without its port check
ThrowsNever(o) == FALSE

\* The constructor's port check: true when new Service(options) throws
Throws(o) == o.port <= 0 \/ o.port > 65535

\* A Service object nothing has been called on
Pristine(s) ==
  /\ ~svc[s].started /\ ~svc[s].published /\ ~svc[s].destroyed
  /\ svc[s].name = cfg[s].name0
  /\ \A c \in 1..Len(calls) : calls[c].svc # s

\* Registry.makeService(options): cfg[s] holds the options; the object is
\* there only when the constructor does not throw
MakeService(s) ==
  /\ CanCall
  /\ opsLeft' = opsLeft - 1
  /\ lastMake' = [op |-> "makeService", svc |-> s, threw |-> Throws(cfg[s])]
  /\ UNCHANGED <<cfg, svc, startedServices, table, calls, rounds, ioq, downs, stopSeen,
                 lastNoop, lastGoodbye, destroyCalled, errsLeft, peerLeft, txLimit>>
  /\ UNCHANGED <<bvars, tvars>>

\* Registry.publish(options): makeService, then service.start()
Publish(s) ==
  /\ CanCall
  /\ Throws(cfg[s]) \/ Pristine(s)
  /\ opsLeft' = opsLeft - 1
  /\ lastMake' = [op |-> "publish", svc |-> s, threw |-> Throws(cfg[s])]
  /\ IF Throws(cfg[s])
       THEN UNCHANGED <<svc, startedServices, table, calls, rounds, ioq, downs, stopSeen>>
       ELSE Commit(onServiceStart([Prog EXCEPT !.svc[s].started = TRUE], s))
  /\ UNCHANGED <<cfg, lastNoop, lastGoodbye, destroyCalled, errsLeft, peerLeft, txLimit>>
  /\ UNCHANGED <<bvars, tvars>>

\* Only a constructed service can be started or stopped
NextPublish ==
  \/ \E s \in Svc : MakeService(s)
  \/ \E s \in Svc : Publish(s)
  \/ \E s \in Svc : ~Throws(cfg[s]) /\ Start(s)
  \/ \E s \in Svc : ~Throws(cfg[s]) /\ Stop(s)
  \/ UnpublishAll
  \/ Destroy
  \/ \E err \in BOOLEAN : AnnounceCb(err)
  \/ \E err \in BOOLEAN : GoodbyeCb(err)
  \/ RecvResponse
  \/ \E c \in 1..Len(calls) : BroadcastTick(c)

InitPublish ==
  /\ cfg \in {[s \in Svc |-> NewService([OptionsOf(s, NoProbe) EXCEPT !.port = p[s]])] :
               p \in [Svc -> Ports]}
  /\ Constructed(PublishOps, PublishErrors, 0, PublishAnnounce)
  /\ BrowserOff
  /\ TypeOff

SpecPublish == InitPublish /\ [][NextPublish]_vars

\* C25: new Service(options) and publish(options) with a port outside
\* 1..65535 throw, and the step changes nothing: no service is started or
\* listed, no record is registered, nothing is handed to the transport.  In
\* no state is a service with such a port started, published or listed, and
\* no SRV record with such a port is in the table or in a packet
C25_InvalidPortThrows ==
  /\ [][\A s \in Svc :
          (MakeService(s) \/ Publish(s)) /\ cfg[s].port \notin 1..65535
            => /\ lastMake'.threw /\ lastMake'.svc = s
               /\ UNCHANGED <<svc, startedServices, table, calls, rounds, ioq, downs>>]_vars
  /\ [][\A s \in Svc :
          (MakeService(s) \/ Publish(s)) /\ cfg[s].port \in 1..65535
            => ~lastMake'.threw]_vars
  /\ [](\A s \in Svc : cfg[s].port \notin 1..65535 =>
          /\ ~svc[s].started /\ ~svc[s].published
          /\ \A i \in 1..Len(startedServices) : startedServices[i] # s)
  /\ [](\A i \in 1..Len(AllRecords(table)) :
          AllRecords(table)[i].type = "SRV" => AllRecords(table)[i].data.port \in 1..65535)
  /\ [](\A i \in 1..Len(ioq) :
          LET sent == IF ioq[i].kind = "response" THEN ioq[i].answers ELSE ioq[i].recs
          IN \A j \in 1..Len(sent) :
               sent[j].type = "SRV" => sent[j].data.port \in 1..65535)

\* publish() threw for one service while the other one, whose port is
\* valid, is published with its records in the table
C25_Witness ==
  /\ lastMake.op = "publish" /\ lastMake.threw
  /\ cfg[lastMake.svc].port \notin 1..65535
  /\ \E s \in Svc :
       /\ svc[s].published
       /\ \E i \in 1..Len(AllRecords(table)) : AllRecords(table)[i].type = "SRV"

(***************************************************************************)
(* C26: Service.getRecords()                                               *)
(***************************************************************************)
\* The subtypes, ttl and disableIPv6 the first service of a run is made with
SubtypeLists == { <<>>, << <<"x">> >>, << <<"x">>, <<"y">> >> }
TTLs == {DefaultTTL, 120}

\* Both services probe with auto-resolve, and another host answers
InitRecords ==
  /\ cfg \in {[s \in Svc |->
                 IF s = 1
                   THEN [NewService([OptionsOf(s, ProbeAuto) EXCEPT !.subtypes = subs])
                           EXCEPT !.ttl = ttl, !.disableIPv6 = noV6]
                   ELSE NewService(OptionsOf(s, ProbeAuto))] :
               subs \in SubtypeLists, ttl \in TTLs, noV6 \in BOOLEAN}
  /\ Constructed(PeerOps, 0, MaxPeer, MaxAnnounce)
  /\ BrowserOff
  /\ TypeOff

SpecRecords == InitRecords /\ [][NextPeer]_vars

\* C26: in every state getRecords() of every service is, in this order, the
\* PTR from "<type>.local" to the fqdn, the SRV and the TXT named by the
\* fqdn, the PTR from "_services._dns-sd._udp.local" to "<type>.local", one
\* PTR from "_<s>._sub.<type>.local" to the fqdn per subtype in list order,
\* then A and AAAA records only; every record has the service's ttl; and
\* the fqdn is name + "." + type + ".local" with the current name
C26_RecordsInOrder ==
  \A s \in Svc :
    LET recs == getRecords(cfg[s], svc[s])
        n == Len(cfg[s].subtypes)
        local == <<".", "l", "o", "c", "a", "l">>
        fq == svc[s].name \o <<".">> \o cfg[s].type \o local
    IN /\ svc[s].fqdn = fq
       /\ Len(recs) >= 4 + n
       /\ recs[1].type = "PTR" /\ recs[1].name = cfg[s].type \o local /\ recs[1].data = fq
       /\ recs[2].type = "SRV" /\ recs[2].name = fq
       /\ recs[3].type = "TXT" /\ recs[3].name = fq
       /\ recs[4].type = "PTR"
       /\ recs[4].name = <<"_", "s", "e", "r", "v", "i", "c", "e", "s", ".", "_", "d", "n",
                           "s", "-", "s", "d", ".", "_", "u", "d", "p">> \o local
       /\ recs[4].data = cfg[s].type \o local
       /\ \A i \in 1..n :
            /\ recs[4 + i].type = "PTR"
            /\ recs[4 + i].name = <<"_">> \o cfg[s].subtypes[i] \o <<".", "_", "s", "u", "b", ".">>
                                    \o cfg[s].type \o local
            /\ recs[4 + i].data = fq
       /\ \A i \in (5 + n)..Len(recs) : recs[i].type \in {"A", "AAAA"}
       /\ \A i \in 1..Len(recs) : recs[i].ttl = cfg[s].ttl

\* A service with two subtypes and its own ttl was renamed by auto-resolve
\* and announced: its renamed records are in the table
C26_Witness ==
  /\ Len(cfg[1].subtypes) = 2 /\ cfg[1].ttl = 120
  /\ svc[1].name # cfg[1].name0
  /\ svc[1].published
  /\ \E i \in 1..Len(AllRecords(table)) :
       /\ AllRecords(table)[i].name = <<"_", "y", ".", "_", "s", "u", "b", ".">> \o cfg[1].type \o TLD
       /\ AllRecords(table)[i].data = svc[1].fqdn
       /\ AllRecords(table)[i].ttl = 120

(***************************************************************************)
(* C27: ServiceType.toString() and ServiceType.fromString()                *)
(***************************************************************************)
\* The names, protocols and subtypes of a run; NoStr is no subtype
TypeNames == { <<"a">>, <<"A">>, <<"_", "a">>, <<" ", "a">>, <<"a", " ">>, <<"a", ".", "b">>,
               <<"s", "u", "b">>, <<"s", "u", "b", "s">> }
TypeProtocols == { <<"t">>, <<"u", ".", "p">>, <<"s", "u", "b">> }
TypeSubtypes == { NoStr, <<>>, <<"x">>, <<"x", ".", "y">>, <<"s", "u", "b">> }

\* serviceType.toString()
TypeToString ==
  /\ typeString = NoStr
  /\ typeString' = ServiceTypeToString(serviceType.name, serviceType.protocol,
                                       serviceType.subtype)
  /\ UNCHANGED <<serviceType, parsed>>
  /\ UNCHANGED <<pvars, bvars>>

\* ServiceType.fromString(typeString)
TypeFromString ==
  /\ typeString # NoStr
  /\ parsed = NotParsed
  /\ parsed' = ServiceTypeFromString(typeString)
  /\ UNCHANGED <<serviceType, typeString>>
  /\ UNCHANGED <<pvars, bvars>>

NextType ==
  \/ TypeToString
  \/ TypeFromString

InitType ==
  /\ InitPublisher(0, 0, 0, 0)
  /\ cfg = [s \in Svc |-> NewService(OptionsOf(s, NoProbe))]
  /\ BrowserOff
  /\ serviceType \in [name : TypeNames, protocol : TypeProtocols, subtype : TypeSubtypes]
  /\ typeString = NoStr
  /\ parsed = NotParsed

SpecType == InitType /\ [][NextType]_vars

\* C27: for every ServiceType with a non-empty name and protocol,
\* fromString(toString()) does not throw and returns the same name,
\* protocol and subtype
C27_RoundTrip ==
  [][TypeFromString /\ serviceType.name # <<>> /\ serviceType.protocol # <<>>
       => /\ parsed'.ok
          /\ parsed'.name = serviceType.name
          /\ parsed'.protocol = serviceType.protocol
          /\ parsed'.subtype = serviceType.subtype]_vars

(***************************************************************************)
(* C28: after unpublishAll()                                               *)
(***************************************************************************)
\* The services the last completed goodbye unpublished for unpublishAll(),
\* start() not having been called on them since
UnpublishedByAll ==
  IF lastGoodbye.caller = "unpublishAll" THEN lastGoodbye.unpublished ELSE {}

\* C28: a service that a completed unpublishAll() unpublished, and that
\* start() was not called on since, is not published (up is emitted only
\* when published becomes true), and no announcement of it is handed to the
\* transport
C28_UnpublishAllIsFinal ==
  /\ [](\A s \in UnpublishedByAll : ~svc[s].published)
  /\ [][\A s \in UnpublishedByAll \cap UnpublishedByAll' :
          /\ \A i \in 1..Len(ioq') :
               (ioq'[i].kind = "announceCb" /\ calls'[ioq'[i].call].svc = s)
                 => \E j \in 1..Len(ioq) : ioq[j] = ioq'[i]
          /\ ~svc'[s].published]_vars

(***************************************************************************)
(* C29: the records of a published service                                 *)
(***************************************************************************)
\* Every record of getRecords() of service s, as named in state S, is in tbl
InTable(tbl, c, S) ==
  \A i \in 1..Len(getRecords(c, S)) :
    \E j \in 1..Len(AllRecords(tbl)) :
      /\ AllRecords(tbl)[j].type = getRecords(c, S)[i].type
      /\ AllRecords(tbl)[j].name = getRecords(c, S)[i].name
      /\ AllRecords(tbl)[j].data = getRecords(c, S)[i].data

\* C29: while a service stays published under its name, with every record
\* of its record set in the table, no step removes one of them: not a
\* stop() or unpublish of another service, which has another fqdn and the
\* same type and host
C29_RecordsStay ==
  [][\A s \in Svc :
       (/\ svc[s].published /\ svc'[s] = svc[s]
        /\ \A t \in Svc \ {s} : svc[t].fqdn # svc[s].fqdn
        /\ ~(\E i \in 1..Len(ioq') : ioq'[i].kind = "goodbyeCb"
               /\ (\A j \in 1..Len(ioq) : ioq[j] # ioq'[i])
               /\ \E k \in 1..Len(ioq'[i].svcs) : ioq'[i].svcs[k] = s)
        /\ InTable(table, cfg[s], svc[s]))
       => InTable(table', cfg[s], svc[s])]_vars

(***************************************************************************)
(* C30: after stop()                                                       *)
(***************************************************************************)
\* The table holds a record named with the fqdn of service s
NamedInTable(tbl, S) ==
  \E i \in 1..Len(AllRecords(tbl)) : AllRecords(tbl)[i].name = S.fqdn

\* No other service that was started or is published has the fqdn of s
OwnFqdn(s) ==
  \A t \in Svc \ {s} :
    (svc[t].started \/ svc[t].published) => svc[t].fqdn # svc[s].fqdn

\* C30: when a stop() of a started service completes (in the call itself
\* when goodbye has nothing to send, else when the goodbye send completes
\* and start() has not been called since), the table holds no record named
\* with the service's fqdn and the service is not published; and in every
\* state a published service is started
C30_StoppedMeansGone ==
  /\ [][\A s \in Svc :
          (Stop(s) /\ svc[s].started /\ Len(ioq') = Len(ioq) /\ OwnFqdn(s))
            => ~NamedInTable(table', svc'[s]) /\ ~svc'[s].published]_vars
  /\ [][\A err \in BOOLEAN :
          (/\ GoodbyeCb(err) /\ Head(ioq).caller = "stop"
           /\ ~svc[Head(ioq).svc].started /\ OwnFqdn(Head(ioq).svc))
            => /\ ~NamedInTable(table', svc'[Head(ioq).svc])
               /\ ~svc'[Head(ioq).svc].published]_vars
  /\ [](\A s \in Svc : svc[s].published => svc[s].started)

(***************************************************************************)
(* C31: two services that probe at the same time                           *)
(***************************************************************************)
\* C31: no two services made with probe and probeAutoResolve are published
\* at the same time with the same fqdn
C31_DistinctFqdns ==
  \A s, t \in Svc :
    (/\ s # t
     /\ cfg[s].probe /\ cfg[s].probeAutoResolve
     /\ cfg[t].probe /\ cfg[t].probeAutoResolve
     /\ svc[s].published /\ svc[t].published)
      => svc[s].fqdn # svc[t].fqdn

(***************************************************************************)
(* C32: responses during a probe round.  A packet of another host is       *)
(* delivered in any turn of the event loop, also between a send and the    *)
(* callback of that send.                                                  *)
(***************************************************************************)
ProbeOps == 2
ProbePeer == 1

\* What another host that holds the name of service s answers
PeerPacket(s) ==
  [kind |-> "response",
   answers |-> <<[type |-> "TXT",
                  name |-> [i \in 1..Len(svc[s].fqdn) |-> UpperChar(svc[s].fqdn[i])],
                  ttl |-> DefaultTTL, data |-> <<>>]>>,
   additionals |-> <<>>]

\* The 'response' event for a packet of another host, before the callbacks
\* of the sends in progress
PeerResponseNow(s) ==
  /\ peerLeft > 0
  /\ \E r \in 1..Len(rounds) : rounds[r].svc = s /\ rounds[r].listening
  /\ peerLeft' = peerLeft - 1
  /\ Commit(OnResponseProbes(Prog, PeerPacket(s)))
  /\ UNCHANGED <<cfg, lastMake, txLimit, lastNoop, lastGoodbye, destroyCalled, opsLeft, errsLeft>>
  /\ UNCHANGED <<bvars, tvars>>

NextProbe ==
  \/ Next
  \/ \E s \in Svc : PeerResponse(s)
  \/ \E s \in Svc : PeerResponseNow(s)

InitProbe == InitWith(ProbeOps, 0, ProbePeer, MaxAnnounce)

SpecProbe == InitProbe /\ [][NextProbe]_vars

\* Round r has a probe query in ioq
QueryPending(q, r) == \E i \in 1..Len(q) : q[i].kind = "queryCb" /\ q[i].round = r

\* C32: a response delivered to a round whose first query has not been sent
\* leaves the round as it was; a response delivered to a listening round
\* whose first query has been sent, with a record named like the fqdn in
\* any case, ends the round; and a round that has ended sends no query
C32_ResponsesInProbeRound ==
  /\ [][\A s \in Svc : \A r \in 1..Len(rounds) :
          (PeerResponseNow(s) /\ ~rounds[r].sent) => rounds'[r] = rounds[r]]_vars
  /\ [][\A r \in 1..Len(rounds) :
          (RecvResponse /\ ~rounds[r].sent) => rounds'[r] = rounds[r]]_vars
  /\ [][\A s \in Svc : \A r \in 1..Len(rounds) :
          (PeerResponseNow(s) /\ rounds[r].sent /\ rounds[r].listening /\ rounds[r].svc = s)
            => rounds'[r].resolved /\ ~rounds'[r].listening]_vars
  /\ [][\A r \in 1..Len(rounds) :
          (RecvResponse /\ rounds[r].sent /\ rounds[r].listening
             /\ \/ HasName(Head(ioq).answers, svc[rounds[r].svc].fqdn)
                \/ HasName(Head(ioq).additionals, svc[rounds[r].svc].fqdn))
            => rounds'[r].resolved /\ ~rounds'[r].listening]_vars
  /\ [][\A r \in 1..Len(rounds) :
          (rounds[r].resolved /\ ~QueryPending(ioq, r)) => ~QueryPending(ioq', r)]_vars

(***************************************************************************)
(* C33: probe queries precede the first announcement                       *)
(***************************************************************************)
\* C33: for a service with probe=true, a probe query is sent only while no
\* announcement of the service has been transmitted since the start() the
\* query belongs to; the rounds of an auto-resolve rename belong to the
\* start() that renamed.
C33_ProbesPrecedeAnnouncement ==
  [][\A r \in 1..Len(rounds) :
       (ProbeSendTick(r) /\ rounds'[r].phase = "query")
         => Transmitted(calls, rounds[r].svc) = calls[rounds[r].call].txBefore]_vars

(***************************************************************************)
(* C34: goodbyes and announcements in one response                         *)
(***************************************************************************)
MixedResponses == 2  \* responses a run of SpecMixed delivers

\* The records of a service made with options o, its PTR records with one
\* ttl and its other records with another
RecordsOf(o, ptrTtl, otherTtl) ==
  LET recs == PacketOf(o, otherTtl).answers
  IN [i \in 1..Len(recs) |->
        IF recs[i].type = "PTR" THEN [recs[i] EXCEPT !.ttl = ptrTtl] ELSE recs[i]]

\* The responses a run of SpecMixed delivers: the announcement or goodbye of
\* one service in the answers and that of another, or of the same, in the
\* additionals; and one service whose PTR records and other records differ
\* in ttl
MixedPackets ==
  {[kind |-> "response",
    answers |-> RecordsOf(p[1], t[1], t[1]),
    additionals |-> RecordsOf(p[2], t[2], t[2])] :
     p \in Announced \X Announced, t \in {0, 1} \X {0, 1}}
    \cup {[kind |-> "response", answers |-> RecordsOf(o, t, 1 - t), additionals |-> <<>>] :
            o \in Announced, t \in {0, 1}}

NextMixed ==
  \/ BrowserStart
  \/ \E packet \in MixedPackets : BrowserResponse(packet)
  \/ \E i \in 1..Len(browserServices) : TTLTimer(i)
  \/ ClockToDue

\* The filters of SpecMixed: none, a name, a TXT entry
MixedFilters ==
  {f \in Filters : f = NoFilter \/ f.name # NoName
                     \/ (f.txt # <<>> /\ f.txt[1].key = <<"k">> /\ f.txt[1].kind = "string")}

InitMixed ==
  /\ InitPublisher(0, 0, 0, 0)
  /\ TypeOff
  /\ cfg = [s \in Svc |-> NewService(OptionsOf(s, NoProbe))]
  /\ filter \in MixedFilters
  /\ listening = FALSE
  /\ browserServices = <<>>
  /\ now = 0
  /\ emitted = <<>>
  /\ queried = <<>>
  /\ finder = NoFinder
  /\ received = NoPacket
  /\ responsesLeft = MixedResponses
  /\ browserOpsLeft = 1
  /\ lateLeft = 0

SpecMixed == InitMixed /\ [][NextMixed]_vars

\* The fqdns a packet says goodbye to
GoneIn(packet) ==
  LET recs == packet.answers \o packet.additionals
  IN {recs[i].data : i \in {j \in 1..Len(recs) : recs[j].type = "PTR" /\ recs[j].ttl = 0}}

\* A packet carries, with ttl > 0, a PTR record for fqdn and an SRV record
\* named like it
LiveIn(packet, fqdn) ==
  LET recs == packet.answers \o packet.additionals
  IN \E i, j \in 1..Len(recs) :
       /\ recs[i].type = "PTR" /\ recs[i].ttl > 0 /\ nameEquals(recs[i].data, fqdn)
       /\ recs[j].type = "SRV" /\ recs[j].ttl > 0 /\ nameEquals(recs[j].name, fqdn)

\* The step is the browser's handler of a 'response' event, for the packet
\* received'
HandlesResponse == responsesLeft' = responsesLeft - 1

\* C34: the handler of one response first emits down for every known service
\* whose fqdn is the data of a PTR record with ttl 0, in the answers or the
\* additionals, and that service is known no more unless the packet also
\* announces it; every up and update comes after those downs and is for a
\* service the packet carries with ttl > 0, seen now; and a known service
\* that the packet neither says goodbye to nor carries with ttl > 0 stays as
\* it was, with its timer
C34_GoodbyesThenServices ==
  [][HandlesResponse =>
       LET packet == received'
       IN
         /\ \A i \in 1..Len(browserServices) :
              browserServices[i].fqdn \in GoneIn(packet) =>
                /\ \E k \in 1..Len(emitted') :
                     /\ emitted'[k] = [ev |-> "down", service |-> browserServices[i]]
                     /\ \A j \in 1..(k - 1) : emitted'[j].ev = "down"
                /\ ~LiveIn(packet, browserServices[i].fqdn) =>
                     ~Known(browserServices', browserServices[i].fqdn)
         /\ \A k \in 1..Len(emitted') :
              emitted'[k].ev \in {"up", "update"} =>
                /\ LiveIn(packet, emitted'[k].service.fqdn)
                /\ emitted'[k].service.ttl > 0
                /\ emitted'[k].service.lastSeen = now
                /\ \E i \in 1..Len(browserServices') :
                     browserServices'[i] = emitted'[k].service
         /\ \A i \in 1..Len(browserServices) :
              (/\ ~LiveIn(packet, browserServices[i].fqdn)
               /\ \A g \in GoneIn(packet) : ~nameEquals(g, browserServices[i].fqdn))
                => \E j \in 1..Len(browserServices') :
                     browserServices'[j] = browserServices[i]]_vars

\* One response has said goodbye to a known service and announced it anew:
\* the down comes first
C34_Witness ==
  /\ listening
  /\ Len(emitted) = 2
  /\ emitted[1].ev = "down"
  /\ emitted[2].ev = "up"
  /\ emitted[1].service.fqdn = emitted[2].service.fqdn
  /\ emitted[2].service.lastSeen > emitted[1].service.lastSeen

(***************************************************************************)
(* C35: a response for a service that is known                             *)
(***************************************************************************)
\* The packet of this step, which yields the services found, yields one
\* service, once or more, says goodbye to none, and the fqdn of that service
\* is known
YieldsKnown(found) ==
  /\ GoneIn(received') = {}
  /\ found # <<>>
  /\ \A k \in 1..Len(found) : found[k] = found[1]
  /\ Known(browserServices, found[1].fqdn)

C36_StartSettles ==
  /\ Idle => \A c \in 1..Len(calls) : calls[c].promise # "pending"
  /\ \A r \in 1..Len(rounds) : rounds[r].resolved => ~rounds[r].listening

(***************************************************************************)
(* C37: a browser that was stopped                                         *)
(***************************************************************************)
\* C37: a browser that does not listen knows no service, so that none of its
\* TTL timers is armed, and emits nothing; and the handler run in which
\* stop() is called from an 'up' listener emits nothing after that up
C37_StoppedBrowserIsSilent ==
  /\ [](~listening => browserServices = <<>>)
  /\ [][~listening /\ ~listening' => emitted' = <<>>]_vars
  /\ [][listening /\ ~listening' =>
          \A k \in 1..Len(emitted') : emitted'[k].ev = "up" => k = Len(emitted')]_vars

(***************************************************************************)
(* C38: events and the known list                                          *)
(***************************************************************************)
\* The fqdns of a list of services, in lower case
FqdnsOf(list) == {ToLowerAscii(list[i].fqdn) : i \in 1..Len(list)}

\* The events of one handler run, followed from the fqdns known before it:
\* up must be for an fqdn that is not known, update and down for one that is
RECURSIVE Follow(_, _)
Follow(st, events) ==
  IF events = <<>> THEN st
  ELSE LET e == Head(events)
           f == ToLowerAscii(e.service.fqdn)
       IN Follow(IF e.ev = "up"
                   THEN [ok |-> st.ok /\ f \notin st.known, known |-> st.known \cup {f}]
                 ELSE IF e.ev = "update"
                   THEN [ok |-> st.ok /\ f \in st.known, known |-> st.known]
                 ELSE [ok |-> st.ok /\ f \in st.known, known |-> st.known \ {f}],
                 Tail(events))

\* C38: the known list never holds two services whose fqdns are equal but
\* for case; and in every handler run other than stop() (a step in which
\* the clock stands), the events emitted, taken in order from the fqdns
\* known before the run, are up only for an fqdn that is not known and update
\* and down only for one that is, and lead to the fqdns known after the run
C38_EventsFollowKnownList ==
  /\ [](\A i, j \in 1..Len(browserServices) :
          i # j => ~nameEquals(browserServices[i].fqdn, browserServices[j].fqdn))
  /\ [][(now' = now /\ ~(listening /\ ~listening')) =>
          \A end \in {Follow([ok |-> TRUE, known |-> FqdnsOf(browserServices)], emitted')} :
            end.ok /\ end.known = FqdnsOf(browserServices')]_vars

\* A response for a known service that has a subtype, at a later time than
\* it became known: the handler has emitted update twice and the list holds
\* the service once
C38_Witness ==
  /\ Len(browserServices) = 1
  /\ Len(emitted) = 2
  /\ emitted[1].ev = "update"
  /\ emitted[2].ev = "update"
  /\ received # NoPacket
  /\ browserServices[1].fqdn[1] = "A"
  /\ browserServices[1].lastSeen > 0

(***************************************************************************)
(* C39: the re-announce timers of a service                                *)
(***************************************************************************)
\* The starts of service s whose re-announce timer is pending
TimersOf(s) == {c \in 1..Len(calls) : calls[c].svc = s /\ calls[c].ann = "timer"}

\* C39: a service has at most one re-announce timer pending, and a timer
\* that fires for a service that is not started, or is destroyed, transmits
\* nothing and arms no timer
C39_OneReannounceTimer ==
  /\ [](\A s \in Svc : Cardinality(TimersOf(s)) <= 1)
  /\ [][\A c \in 1..Len(calls) :
          (BroadcastTick(c) /\ Inactive(Prog, calls[c].svc))
            => calls'[c].tx = calls[c].tx /\ calls'[c].ann = "off" /\ ioq' = ioq]_vars

(***************************************************************************)
(* C40: an SRV record whose name holds no service type                     *)
(***************************************************************************)
\* Names of fewer than four labels
ShortNames == { <<"a", ".", "l", "o", "c", "a", "l">>,
                <<"a", ".", "_", "t", ".", "l", "o", "c", "a", "l">> }

\* A PTR record that points to such a name and the SRV record of that name
ShortRecords(n, ttl) ==
  << [type |-> "PTR", name |-> <<"_", "t", ".", "_", "t", "c", "p">> \o TLD, ttl |-> ttl,
      data |-> n],
     [type |-> "SRV", name |-> n, ttl |-> ttl, data |-> [port |-> 3009, target |-> HostName]] >>

\* The responses a run of SpecShort delivers: the announcement or goodbye of
\* a service, alone, or with the two records before it or after it
ShortPackets ==
  {PacketOf(o, ttl) : o \in Announced, ttl \in {0, 1}}
    \cup {[kind |-> "response", answers |-> ShortRecords(n, t[1]) \o RecordsOf(o, t[2], t[2]),
           additionals |-> <<>>] :
            n \in ShortNames, o \in Announced, t \in {0, 1} \X {0, 1}}
    \cup {[kind |-> "response", answers |-> RecordsOf(o, t[2], t[2]),
           additionals |-> ShortRecords(n, t[1])] :
            n \in ShortNames, o \in Announced, t \in {0, 1} \X {0, 1}}

NextShort ==
  \/ BrowserStart
  \/ \E packet \in ShortPackets : BrowserResponse(packet)
  \/ \E i \in 1..Len(browserServices) : TTLTimer(i)
  \/ ClockToDue

SpecShort == InitMixed /\ [][NextShort]_vars

\* The number of labels of a name
Labels(n) == Len(Split(n, "."))

\* C40: no exception leaves the handler of a response; and a browser without
\* filter knows, after a response, every service of four labels or more that
\* the response carries with ttl > 0, whatever other records it carries
C40_ShortNameIsSkipped ==
  /\ [](~received.threw)
  /\ [][HandlesResponse =>
          \A i \in 1..Len(received'.answers) :
            (/\ filter = NoFilter
             /\ received'.answers[i].type = "SRV"
             /\ Labels(received'.answers[i].name) >= 4
             /\ LiveIn(received', received'.answers[i].name))
              => Known(browserServices', received'.answers[i].name)]_vars

=============================================================================
